---- MODULE Spec2Model ----
(***************************************************************************)
(* Dominoes state representation: the layout tree with its open-end index  *)
(* (dominoes-state/src/layout.rs), the Zobrist fingerprint                 *)
(* (dominoes-state/src/zhash.rs), the game state that pairs them          *)
(* (dominoes-state/src/dominoes_state.rs), and the tile helpers            *)
(* (rules/src/lib.rs, rules/src/tile.rs).                                  *)
(*                                                                         *)
(* Conventions.                                                            *)
(*  - Option<T> is a sequence of length at most one: None is <<>> and      *)
(*    Some(x) is <<x>>.                                                    *)
(*  - Node indices are 0-based as in the source; node i is nodes[i + 1].   *)
(*  - end_counts is the Vec<u8> indexed by pip value; value v is           *)
(*    end_counts[v + 1].                                                   *)
(*  - A Z value (u64) is the set of table entries XORed into it an odd     *)
(*    number of times; XOR of two values is the symmetric difference.  The *)
(*    table's random constants are kept symbolic: entry ids are integers.  *)
(***************************************************************************)
EXTENDS Integers, Sequences, FiniteSets, TLC

VARIABLES layout, last, incremental, turn,
          fingerprint, whose_turn, consecutive_passes, boneyard,
          zstart, zcalls, zpending, acc, zlog,
          game_is_over, winner,
          drawn, dealt,
          once, table, builds, pc, seen

vars == <<layout, last, incremental, turn,
          fingerprint, whose_turn, consecutive_passes, boneyard,
          zstart, zcalls, zpending, acc, zlog,
          game_is_over, winner,
          drawn, dealt,
          once, table, builds, pc, seen>>

(***************************************************************************)
(* Bounds                                                                  *)
(***************************************************************************)
\* configuration.set_id: the highest pip value of the set in play
SetId == 2
\* largest number of nodes a layout is grown to
MaxNodes == 4
\* largest value of consecutive_passes explored
MaxPasses == 1
\* largest number of tiles played onto the game state's layout
MaxPlays == 3
\* largest number of ZHash calls in one collection
MaxCalls == 3
\* largest open-end count passed to change_end_count in a collection
MaxCount == 2
\* largest number of chains written into one group of a text
MaxGroup == 4
\* largest layout whose text is laid out again with a change
MaxWritten == 3

(***************************************************************************)
(* Option                                                                  *)
(***************************************************************************)
None == <<>>

Some(x) == <<x>>

(***************************************************************************)
(* rules: tiles                                                            *)
(***************************************************************************)
TUPLES ==
  << <<0, 0>>,
     <<0, 1>>, <<1, 1>>,
     <<0, 2>>, <<1, 2>>, <<2, 2>>,
     <<0, 3>>, <<1, 3>>, <<2, 3>>, <<3, 3>>,
     <<0, 4>>, <<1, 4>>, <<2, 4>>, <<3, 4>>, <<4, 4>> >>

\* the rows of TUPLES after these: the pairs with 5 pips or more, ordinals 15
\* to 252
TUPLES_FROM_5 ==
  << <<0, 5>>, <<1, 5>>, <<2, 5>>, <<3, 5>>, <<4, 5>>, <<5, 5>>,
     <<0, 6>>, <<1, 6>>, <<2, 6>>, <<3, 6>>, <<4, 6>>, <<5, 6>>, <<6, 6>>,
     <<0, 7>>, <<1, 7>>, <<2, 7>>, <<3, 7>>, <<4, 7>>, <<5, 7>>, <<6, 7>>, <<7, 7>>,
     <<0, 8>>, <<1, 8>>, <<2, 8>>, <<3, 8>>, <<4, 8>>, <<5, 8>>, <<6, 8>>, <<7, 8>>, <<8, 8>>,
     <<0, 9>>, <<1, 9>>, <<2, 9>>, <<3, 9>>, <<4, 9>>, <<5, 9>>, <<6, 9>>, <<7, 9>>, <<8, 9>>, <<9, 9>>,
     <<0, 10>>, <<1, 10>>, <<2, 10>>, <<3, 10>>, <<4, 10>>, <<5, 10>>, <<6, 10>>, <<7, 10>>, <<8, 10>>, <<9, 10>>, <<10, 10>>,
     <<0, 11>>, <<1, 11>>, <<2, 11>>, <<3, 11>>, <<4, 11>>, <<5, 11>>, <<6, 11>>, <<7, 11>>, <<8, 11>>, <<9, 11>>, <<10, 11>>, <<11, 11>>,
     <<0, 12>>, <<1, 12>>, <<2, 12>>, <<3, 12>>, <<4, 12>>, <<5, 12>>, <<6, 12>>, <<7, 12>>, <<8, 12>>, <<9, 12>>, <<10, 12>>, <<11, 12>>, <<12, 12>>,
     <<0, 13>>, <<1, 13>>, <<2, 13>>, <<3, 13>>, <<4, 13>>, <<5, 13>>, <<6, 13>>, <<7, 13>>, <<8, 13>>, <<9, 13>>, <<10, 13>>, <<11, 13>>, <<12, 13>>, <<13, 13>>,
     <<0, 14>>, <<1, 14>>, <<2, 14>>, <<3, 14>>, <<4, 14>>, <<5, 14>>, <<6, 14>>, <<7, 14>>, <<8, 14>>, <<9, 14>>, <<10, 14>>, <<11, 14>>, <<12, 14>>, <<13, 14>>, <<14, 14>>,
     <<0, 15>>, <<1, 15>>, <<2, 15>>, <<3, 15>>, <<4, 15>>, <<5, 15>>, <<6, 15>>, <<7, 15>>, <<8, 15>>, <<9, 15>>, <<10, 15>>, <<11, 15>>, <<12, 15>>, <<13, 15>>, <<14, 15>>, <<15, 15>>,
     <<0, 16>>, <<1, 16>>, <<2, 16>>, <<3, 16>>, <<4, 16>>, <<5, 16>>, <<6, 16>>, <<7, 16>>, <<8, 16>>, <<9, 16>>, <<10, 16>>, <<11, 16>>, <<12, 16>>, <<13, 16>>, <<14, 16>>, <<15, 16>>, <<16, 16>>,
     <<0, 17>>, <<1, 17>>, <<2, 17>>, <<3, 17>>, <<4, 17>>, <<5, 17>>, <<6, 17>>, <<7, 17>>, <<8, 17>>, <<9, 17>>, <<10, 17>>, <<11, 17>>, <<12, 17>>, <<13, 17>>, <<14, 17>>, <<15, 17>>, <<16, 17>>, <<17, 17>>,
     <<0, 18>>, <<1, 18>>, <<2, 18>>, <<3, 18>>, <<4, 18>>, <<5, 18>>, <<6, 18>>, <<7, 18>>, <<8, 18>>, <<9, 18>>, <<10, 18>>, <<11, 18>>, <<12, 18>>, <<13, 18>>, <<14, 18>>, <<15, 18>>, <<16, 18>>, <<17, 18>>, <<18, 18>>,
     <<0, 19>>, <<1, 19>>, <<2, 19>>, <<3, 19>>, <<4, 19>>, <<5, 19>>, <<6, 19>>, <<7, 19>>, <<8, 19>>, <<9, 19>>, <<10, 19>>, <<11, 19>>, <<12, 19>>, <<13, 19>>, <<14, 19>>, <<15, 19>>, <<16, 19>>, <<17, 19>>, <<18, 19>>, <<19, 19>>,
     <<0, 20>>, <<1, 20>>, <<2, 20>>, <<3, 20>>, <<4, 20>>, <<5, 20>>, <<6, 20>>, <<7, 20>>, <<8, 20>>, <<9, 20>>, <<10, 20>>, <<11, 20>>, <<12, 20>>, <<13, 20>>, <<14, 20>>, <<15, 20>>, <<16, 20>>, <<17, 20>>, <<18, 20>>, <<19, 20>>, <<20, 20>>,
     <<0, 21>>, <<1, 21>>, <<2, 21>>, <<3, 21>>, <<4, 21>>, <<5, 21>>, <<6, 21>>, <<7, 21>>, <<8, 21>>, <<9, 21>>, <<10, 21>>, <<11, 21>>, <<12, 21>>, <<13, 21>>, <<14, 21>>, <<15, 21>>, <<16, 21>>, <<17, 21>>, <<18, 21>>, <<19, 21>>, <<20, 21>>, <<21, 21>> >>

DOUBLES == <<0, 2, 5, 9, 14>>

\* rules::MAX_PIPS
MAX_PIPS == 21

set_size(n) == ((n + 1) * (n + 2)) \div 2

ordinal_to_tuple(ordinal) == TUPLES[ordinal + 1]

as_tuple(tile) == ordinal_to_tuple(tile)

is_double_ordinal(ordinal) == \E i \in 1..Len(DOUBLES) : DOUBLES[i] = ordinal

is_double(tile) == is_double_ordinal(tile)

\* Tile::can_attach: the two tiles have a pip value in common
can_attach(parent, tile) ==
  LET p == as_tuple(parent)
      t == as_tuple(tile)
  IN  t[1] = p[1] \/ t[1] = p[2] \/ t[2] = p[1] \/ t[2] = p[2]

\* Configuration::all_tiles: the ordinals of the double-set_id set
all_tiles(set_id) == 0..(set_size(set_id) - 1)

Values == 0..SetId

(***************************************************************************)
(* Layout (dominoes-state/src/layout.rs)                                   *)
(***************************************************************************)
\* Layout::new
Layout_new(set_id) ==
  [nodes |-> <<>>, open |-> [k \in {} |-> <<>>], end_counts |-> [v \in 1..(set_id + 1) |-> 0]]

\* Layout::is_empty
is_empty(l) == l.nodes = <<>>

\* Layout::open_count
open_count(l, end) == l.end_counts[end + 1]

\* MultiMap::insert: append the value to the key's vector, creating the key
open_insert(open, key, value) ==
  IF key \in DOMAIN open
    THEN [open EXCEPT ![key] = Append(@, value)]
    ELSE [k \in DOMAIN open \cup {key} |-> IF k = key THEN <<value>> ELSE open[k]]

\* Vec::remove: drop the element at 1-based position pos
vec_remove(values, pos) ==
  [i \in 1..(Len(values) - 1) |-> IF i < pos THEN values[i] ELSE values[i + 1]]

\* iter().position(|x| x == value): the first 1-based position, 0 if there is none
position(values, value) ==
  IF \E i \in 1..Len(values) : values[i] = value
    THEN CHOOSE i \in 1..Len(values) :
           /\ values[i] = value
           /\ \A j \in 1..(i - 1) : values[j] # value
    ELSE 0

\* remove_from_open removing every entry of the value, not only the first
remove_from_open_every_entry(open, parent, value) ==
  IF parent \notin DOMAIN open \/ position(open[parent], value) = 0
    THEN [open |-> open, panicked |-> TRUE]
    ELSE LET values == SelectSeq(open[parent], LAMBDA x : x # value)
         IN  [open |-> IF values = <<>>
                         THEN [k \in DOMAIN open \ {parent} |-> open[k]]
                         ELSE [open EXCEPT ![parent] = values],
              panicked |-> FALSE]

\* remove_from_open leaving the emptied vector under its key
remove_from_open_keeps_key(open, parent, value) ==
  IF parent \notin DOMAIN open \/ position(open[parent], value) = 0
    THEN [open |-> open, panicked |-> TRUE]
    ELSE [open |-> [open EXCEPT ![parent] = vec_remove(@, position(@, value))],
          panicked |-> FALSE]

\* remove_from_open returning quietly when the value is not in the slot
remove_from_open_ignores_missing(open, parent, value) ==
  IF parent \notin DOMAIN open
    THEN [open |-> open, panicked |-> TRUE]
    ELSE IF position(open[parent], value) = 0
           THEN [open |-> open, panicked |-> FALSE]
           ELSE LET values == vec_remove(open[parent], position(open[parent], value))
                IN  [open |-> IF values = <<>>
                                THEN [k \in DOMAIN open \ {parent} |-> open[k]]
                                ELSE [open EXCEPT ![parent] = values],
                     panicked |-> FALSE]

\* Layout::remove_from_open: [open, panicked]
remove_from_open(open, parent, value) ==
  IF parent \notin DOMAIN open
    THEN [open |-> open, panicked |-> TRUE]
    ELSE LET pos == position(open[parent], value)
         IN  IF pos = 0
               THEN [open |-> open, panicked |-> TRUE]
               ELSE LET values == vec_remove(open[parent], pos)
                    IN  [open |-> IF values = <<>>
                                    THEN [k \in DOMAIN open \ {parent} |-> open[k]]
                                    ELSE [open EXCEPT ![parent] = values],
                         panicked |-> FALSE]

\* a double opening a single end
new_open_ends_always_one(tile) == 1

\* Layout::attach: the open ends a new tile adds, two if it is a double
new_open_ends(tile) == IF is_double(tile) THEN 2 ELSE 1

\* the value matched to the parent returned in place of the value left open
attach_return_matched(matched_value, open_value, open_count_) ==
  Some(<<matched_value, open_count_>>)

\* Layout::attach: the value returned by the Some(parent_index) arm
attach_return(matched_value, open_value, open_count_) ==
  Some(<<open_value, open_count_>>)

\* Layout::attach, the Some(parent_index) arm after its two assertions
attach_to_parent(l, tile, parent_index) ==
  LET a == as_tuple(tile)[1]
      b == as_tuple(tile)[2]
      parent == as_tuple(l.nodes[parent_index + 1].tile)
      matched_value == IF parent[1] = a \/ parent[2] = a THEN a ELSE b
      open_value == IF parent[1] = a \/ parent[2] = a THEN b ELSE a
      tile_index == Len(l.nodes)
      open_count_ == new_open_ends(tile)
      pushed == Append(l.nodes, [tile |-> tile, parent |-> Some(parent_index), children |-> <<>>])
      opened == IF open_count_ = 2
                  THEN open_insert(open_insert(l.open, tile_index, open_value), tile_index, open_value)
                  ELSE open_insert(l.open, tile_index, open_value)
      counted == [l.end_counts EXCEPT ![open_value + 1] = @ + open_count_]
      removed == remove_from_open(opened, parent_index, matched_value)
  IN  IF removed.panicked
        THEN [layout |-> [nodes |-> pushed, open |-> opened, end_counts |-> counted],
              ret |-> None, panicked |-> TRUE]
        ELSE [layout |-> [nodes |-> [pushed EXCEPT ![parent_index + 1].children = Append(@, tile_index)],
                          open |-> removed.open,
                          end_counts |-> [counted EXCEPT ![matched_value + 1] = @ - 1]],
              ret |-> attach_return(matched_value, open_value, open_count_), panicked |-> FALSE]

\* Layout::attach, the None arm after its two assertions
attach_first(l, tile) ==
  LET a == as_tuple(tile)[1]
  IN  [layout |-> [nodes |-> Append(l.nodes, [tile |-> tile, parent |-> None, children |-> <<>>]),
                   open |-> open_insert(open_insert(l.open, 0, a), 0, a),
                   end_counts |-> [l.end_counts EXCEPT ![a + 1] = @ + 2]],
       ret |-> Some(<<a, 2>>), panicked |-> FALSE]

\* the assertions of the Some(parent_index) arm of Layout::attach
attach_parent_ok(l, tile, parent_index) ==
  /\ parent_index < Len(l.nodes) /\ parent_index \in DOMAIN l.open
  /\ can_attach(l.nodes[parent_index + 1].tile, tile)

\* the None arm accepting any tile on an empty layout
attach_first_ok_any_tile(l, tile) ==
  l.nodes = <<>> /\ DOMAIN l.open = {}

\* the assertions of the None arm of Layout::attach
attach_first_ok(l, tile) ==
  /\ is_double(tile)
  /\ l.nodes = <<>> /\ DOMAIN l.open = {}

\* Layout::attach: [layout, ret, panicked]; a panic leaves the layout as it
\* was when the panic was raised
attach(l, tile, parent_index) ==
  IF parent_index # None
    THEN IF attach_parent_ok(l, tile, parent_index[1])
           THEN attach_to_parent(l, tile, parent_index[1])
           ELSE [layout |-> l, ret |-> None, panicked |-> TRUE]
    ELSE IF attach_first_ok(l, tile)
           THEN attach_first(l, tile)
           ELSE [layout |-> l, ret |-> None, panicked |-> TRUE]

\* Layout::get_nodes_with_open_end, as a set: MultiMap::iter yields each key
\* with the first value of its vector
get_nodes_with_open_end(l, end_value) ==
  IF open_count(l, end_value) = 0 THEN {}
  ELSE {k \in DOMAIN l.open : l.open[k][1] = end_value}

\* impl Serialize for Layout: the nodes and the set id, nothing derived
serialize(l) == [nodes |-> l.nodes, set_id |-> Len(l.end_counts) - 1]

\* the links to the nodes indices[i..] that Layout::rebuild_open_and_end_counts
\* counts for one side of a tile: with a_side = <<a, TRUE>> those whose tile
\* holds a (connections_a), with <<a, FALSE>> the others (connections_b)
\* count_links looking at the first of the linked nodes only
count_links_first_only(nodes, indices, i, a_side) ==
  IF i > Len(indices) THEN 0
  ELSE LET c == as_tuple(nodes[indices[i] + 1].tile)
           on_a == a_side[1] = c[1] \/ a_side[1] = c[2]
       IN  IF on_a = a_side[2] THEN 1 ELSE 0

RECURSIVE count_links(_, _, _, _)
count_links(nodes, indices, i, a_side) ==
  IF i > Len(indices) THEN 0
  ELSE LET c == as_tuple(nodes[indices[i] + 1].tile)
           on_a == a_side[1] = c[1] \/ a_side[1] = c[2]
       IN  (IF on_a = a_side[2] THEN 1 ELSE 0) + count_links(nodes, indices, i + 1, a_side)

\* Layout::rebuild_open_and_end_counts, the body of the loop for one node:
\* [open, end_counts, result] with result "ok", "err" or "panic"
rebuild_node(nodes, open, end_counts, node_index) ==
  LET node == nodes[node_index + 1]
      a == as_tuple(node.tile)[1]
      b == as_tuple(node.tile)[2]
      in_range(ix) == \A i \in 1..Len(ix) : ix[i] < Len(nodes)
      parent_a == IF node.parent # None
                    THEN count_links(nodes, node.parent, 1, <<a, TRUE>>)
                    ELSE IF is_double(node.tile) THEN 1 ELSE 0
      parent_b == IF node.parent # None
                    THEN count_links(nodes, node.parent, 1, <<a, FALSE>>)
                    ELSE 0
      connections_a == parent_a + count_links(nodes, node.children, 1, <<a, TRUE>>)
      connections_b == parent_b + count_links(nodes, node.children, 1, <<a, FALSE>>)
      remaining_connections == 3 - connections_a
      stop(r) == [open |-> open, end_counts |-> end_counts, result |-> r]
      add(o, e, v) == [open |-> open_insert(o, node_index, v),
                       end_counts |-> [e EXCEPT ![v + 1] = @ + 1]]
  IN  IF Len(node.children) > 2 THEN stop("err")
      ELSE IF ~in_range(node.parent) \/ ~in_range(node.children) THEN stop("panic")
      ELSE IF is_double(node.tile)
        THEN IF remaining_connections <= 0
               THEN stop("ok")
             ELSE IF a + 1 > Len(end_counts) THEN stop("panic")
             ELSE LET one == add(open, end_counts, a)
                      two == add(one.open, one.end_counts, a)
                      three == add(two.open, two.end_counts, a)
                      r == IF remaining_connections = 1 THEN one
                           ELSE IF remaining_connections = 2 THEN two ELSE three
                  IN  [open |-> r.open, end_counts |-> r.end_counts, result |-> "ok"]
        ELSE IF node.parent # None /\ Len(node.children) > 1 THEN stop("err")
             ELSE IF \/ connections_a = 0 /\ a + 1 > Len(end_counts)
                     \/ connections_b = 0 /\ b + 1 > Len(end_counts)
                    THEN stop("panic")
             ELSE LET one == IF connections_a = 0 THEN add(open, end_counts, a)
                             ELSE [open |-> open, end_counts |-> end_counts]
                      two == IF connections_b = 0 THEN add(one.open, one.end_counts, b)
                             ELSE one
                  IN  [open |-> two.open, end_counts |-> two.end_counts, result |-> "ok"]

RECURSIVE rebuild_from(_, _, _)
\* the loop of Layout::rebuild_open_and_end_counts from node_index on, r being
\* the outcome of the nodes before it
rebuild_from(nodes, r, node_index) ==
  IF node_index >= Len(nodes) \/ r.result # "ok"
    THEN r
    ELSE rebuild_from(nodes, rebuild_node(nodes, r.open, r.end_counts, node_index),
                      node_index + 1)

\* Layout::rebuild_open_and_end_counts on a layout whose index is cleared
\* the loop stopping after the root
rebuild_open_and_end_counts_root_only(nodes, set_id) ==
  rebuild_from([k \in 1..Len(nodes) |->
                  IF k = 1 THEN nodes[k] ELSE [nodes[k] EXCEPT !.children = <<>>]],
               [open |-> [k \in {} |-> <<>>],
                end_counts |-> [v \in 1..(set_id + 1) |-> 0],
                result |-> "ok"], 0)

rebuild_open_and_end_counts(nodes, set_id) ==
  rebuild_from(nodes, [open |-> [k \in {} |-> <<>>],
                       end_counts |-> [v \in 1..(set_id + 1) |-> 0],
                       result |-> "ok"], 0)

\* impl Deserialize for Layout (LayoutVisitor::visit_map): [layout, result]
deserialize(data) ==
  LET r == rebuild_open_and_end_counts(data.nodes, data.set_id)
  IN  [layout |-> [nodes |-> data.nodes, open |-> r.open, end_counts |-> r.end_counts],
       result |-> r.result]

(***************************************************************************)
(* ZHash (dominoes-state/src/zhash.rs)                                     *)
(***************************************************************************)
\* u64 XOR on the symbolic representation
XOR(x, y) == (x \ y) \cup (y \ x)

\* ZHash::START
START == {}

\* ZTable::tile_hashes[tile]: one constant per tile ordinal
tile_value(tile) == {tile}

\* the bounds assertions of ZTable::end_value
\* end_value without its assertions
end_value_ok_unchecked(which, count) == TRUE

end_value_ok(which, count) == which < 22 /\ count < 22

\* ZTable::end_hashes[which][count]: count 0 is the constant 0
\* a table with a constant of its own for count 0
end_value_zero_drawn(which, count) == {256 + 22 * which + count}

end_value(which, count) == IF count = 0 THEN {} ELSE {256 + 22 * which + count}

\* ZTable::turn_hash
turn_value == {256 + 22 * 22}

\* add_tile storing the tile's constant in place of XORing it in
add_tile_assigns(z, tile) == tile_value(tile)

\* ZHash::add_tile
add_tile(z, tile) == XOR(z, tile_value(tile))

\* the assertion of ZHash::change_end_count
\* change_end_count without its sanity check
change_end_count_ok_same_allowed(value, old_count, new_count) ==
  end_value_ok(value, old_count) /\ end_value_ok(value, new_count)

change_end_count_ok(value, old_count, new_count) ==
  /\ old_count # new_count
  /\ end_value_ok(value, old_count) /\ end_value_ok(value, new_count)

\* change_end_count without the undo of the previous count
change_end_count_no_undo(z, value, old_count, new_count) ==
  XOR(z, end_value(value, new_count))

\* change_end_count XORing in the constant of the difference of the counts
change_end_count_by_delta(z, value, old_count, new_count) ==
  XOR(z, end_value(value, IF new_count > old_count THEN new_count - old_count
                          ELSE old_count - new_count))

\* ZHash::change_end_count
change_end_count(z, value, old_count, new_count) ==
  XOR(XOR(z, end_value(value, old_count)), end_value(value, new_count))

\* turn setting the turn constant's bits in place of XORing them
zturn_sets(z) == z \cup turn_value

\* ZHash::turn
zturn(z) == XOR(z, turn_value)

RECURSIVE xor_tiles_children_only(_, _)
\* the first loop of from_state leaving out the node that has no parent
xor_tiles_children_only(nodes, i) ==
  IF i > Len(nodes) THEN START
  ELSE XOR(IF nodes[i].parent = None THEN START ELSE tile_value(nodes[i].tile),
           xor_tiles_children_only(nodes, i + 1))

RECURSIVE xor_tiles(_, _)
\* the first loop of ZHash::from_state, over nodes[i..]
xor_tiles(nodes, i) ==
  IF i > Len(nodes) THEN START
  ELSE XOR(tile_value(nodes[i].tile), xor_tiles(nodes, i + 1))

RECURSIVE xor_ends(_, _)
\* the second loop of ZHash::from_state, over end_counts[i..]
xor_ends(end_counts, i) ==
  IF i > Len(end_counts) THEN START
  ELSE XOR(end_value(i - 1, end_counts[i]), xor_ends(end_counts, i + 1))

\* the assertions of ZHash::from_state
\* from_state without the assertion on turn
from_state_ok_any_turn(l, t) ==
  \A i \in 1..Len(l.end_counts) : end_value_ok(i - 1, l.end_counts[i])

from_state_ok(l, t) ==
  /\ t < 2
  /\ \A i \in 1..Len(l.end_counts) : end_value_ok(i - 1, l.end_counts[i])

\* ZHash::from_state
from_state(l, t) ==
  XOR(XOR(xor_tiles(l.nodes, 1), xor_ends(l.end_counts, 1)),
      IF t # 0 THEN turn_value ELSE START)

(***************************************************************************)
(* A game-state owner driving Layout and ZHash directly, as                *)
(* test_zhash_from_state_vs_incremental does: every successful attach is   *)
(* followed by add_tile and one change_end_count per value whose total     *)
(* changed; every turn change is followed by turn().                       *)
(***************************************************************************)
RECURSIVE update_end_counts(_, _, _, _)
\* one change_end_count(v, before, after) for each value v >= value whose
\* total differs between the two layouts
update_end_counts(z, before, after, value) ==
  IF value + 1 > Len(after.end_counts) THEN z
  ELSE update_end_counts(
         IF open_count(before, value) # open_count(after, value)
           THEN change_end_count(z, value, open_count(before, value), open_count(after, value))
           ELSE z,
         before, after, value + 1)

\* the owner's fingerprint update for a tile attached between two layouts
owner_update(z, tile, before, after) ==
  update_end_counts(add_tile(z, tile), before, after, 0)

\* the most recent call: its name, arguments, result (None when it gave none)
\* and whether it panicked
NoCall == [op |-> "new", args |-> <<>>, ret |-> None, panicked |-> FALSE]

stateVars == <<fingerprint, whose_turn, consecutive_passes, boneyard>>

ownerVars == <<incremental, turn>>

zVars == <<zstart, zcalls, zpending, acc, zlog>>

\* DominoesState::game_is_over and winner
overVars == <<game_is_over, winner>>

\* what a caller of Boneyard keeps: the tiles the boneyard was made with and
\* the tiles that draw has returned, in the order of the calls
drawVars == <<drawn, dealt>>

\* the static Z_VALUE_TABLE and the threads that use it
tableVars == <<once, table, builds, pc, seen>>

\* the added variables when their part of the program is not in use: a game
\* that is not over, a boneyard no caller follows, a table no thread uses
OthersIdle ==
  /\ game_is_over = FALSE /\ winner = None
  /\ drawn = <<>> /\ dealt = <<>>
  /\ once = "incomplete" /\ table = None /\ builds = 0
  /\ pc = <<>> /\ seen = <<>>

\* the ZHash variables when no collection of calls is being applied
ZIdle ==
  zstart = START /\ zcalls = {} /\ zpending = {} /\ acc = START /\ zlog = <<>>

\* the parents a caller may name: none, every node, and one index past the end
ParentInputs(l) == {None} \cup {Some(i) : i \in 0..Len(l.nodes)}

Init ==
  /\ layout = Layout_new(SetId)
  /\ last = NoCall
  /\ incremental = START
  /\ turn = 0
  /\ fingerprint = START
  /\ whose_turn = 0
  /\ consecutive_passes = 0
  /\ boneyard = [tiles |-> <<>>, next |-> 0]
  /\ ZIdle
  /\ OthersIdle

\* the owner calls layout.attach(tile, parent_index) and updates its fingerprint
Attach(tile, parent_index) ==
  /\ ~last.panicked
  /\ Len(layout.nodes) < MaxNodes
  /\ LET r == attach(layout, tile, parent_index)
     IN  /\ layout' = r.layout
         /\ last' = [op |-> "attach", args |-> <<tile, parent_index>>,
                     ret |-> r.ret, panicked |-> r.panicked]
         /\ incremental' = IF r.panicked THEN incremental
                           ELSE owner_update(incremental, tile, layout, r.layout)
  /\ UNCHANGED <<turn, stateVars, zVars, overVars, drawVars, tableVars>>

\* the owner passes the turn to the other player (dominoes_game.rs) and calls turn()
TurnChange ==
  /\ ~last.panicked
  /\ turn' = (turn + 1) % 2
  /\ incremental' = zturn(incremental)
  /\ last' = [NoCall EXCEPT !.op = "turn"]
  /\ UNCHANGED <<layout, stateVars, zVars, overVars, drawVars, tableVars>>

\* a persisted form in which the tile of node i has been replaced
retiled(data, i, tile) ==
  [data EXCEPT !.nodes = [@ EXCEPT ![i + 1] = [@ EXCEPT !.tile = tile]]]

\* a persisted form in which node i has been given n more children, each the
\* index of the newest node
with_children(data, i, n) ==
  [data EXCEPT !.nodes = [@ EXCEPT ![i + 1] =
     [@ EXCEPT !.children = @ \o [k \in 1..n |-> Len(data.nodes) - 1]]]]

\* the persisted forms with more children than serialize wrote: one or two
\* more at the root, its tile kept or replaced by the non-double 0|1, and two
\* more at the newest node
OvergrownInputs(l) ==
  IF l.nodes = <<>> THEN {}
  ELSE {with_children(retiled(serialize(l), 0, tile), 0, n) :
          tile \in {l.nodes[1].tile, 1}, n \in {1, 2}}
       \cup {with_children(serialize(l), Len(l.nodes) - 1, 2)}

\* the persisted forms that are loaded: what serialize wrote for the layout,
\* that form with the tile of the newest node replaced by another tile, and
\* that form with more children
PersistedInputs(l) ==
  {serialize(l)}
  \cup {retiled(serialize(l), Len(l.nodes) - 1, tile) :
          tile \in IF l.nodes = <<>> THEN {} ELSE all_tiles(SetId)}
  \cup OvergrownInputs(l)

\* deserialize is called on a layout that no call has aborted on, once
DeserializeCall == ~last.panicked /\ last.op # "deserialize"

\* the layout is persisted and the persisted form is loaded into a new Layout;
\* the layout itself is left alone, so a load is followed by another call
Deserialize(data) ==
  /\ DeserializeCall
  /\ \E r \in {deserialize(data)} :
       last' = [op |-> "deserialize", args |-> <<data>>,
                ret |-> IF r.result = "ok" THEN Some(r.layout) ELSE None,
                panicked |-> r.result = "panic"]
  /\ UNCHANGED <<layout, ownerVars, stateVars, zVars, overVars, drawVars, tableVars>>

Next ==
  \/ \E tile \in all_tiles(SetId) : \E parent_index \in ParentInputs(layout) :
       Attach(tile, parent_index)
  \/ TurnChange
  \/ DeserializeCall /\ \E data \in PersistedInputs(layout) : Deserialize(data)

Spec == Init /\ [][Next]_vars

(***************************************************************************)
(* A layout that is grown by attach, persisted and loaded back, and asked  *)
(* for the nodes with an open end                                          *)
(***************************************************************************)
\* the layout is persisted, the persisted form is loaded and the loaded
\* layout takes the place of the layout
Reload(data) ==
  /\ last.op \in {"new", "attach"} /\ ~last.panicked
  /\ \E r \in {deserialize(data)} :
       /\ layout' = IF r.result = "ok" THEN r.layout ELSE layout
       /\ last' = [op |-> "deserialize", args |-> <<data>>, ret |-> None,
                   panicked |-> r.result = "panic"]
  /\ UNCHANGED <<ownerVars, stateVars, zVars, overVars, drawVars, tableVars>>

\* the pip values a caller asks for: those of the set and the one after
EndValueInputs == 0..(SetId + 1)

\* layout.get_nodes_with_open_end(value): the assertion, then the nodes
GetNodesWithOpenEnd(value) ==
  /\ last.op \in {"new", "attach", "deserialize"} /\ ~last.panicked
  /\ last' = IF value < Len(layout.end_counts)
              THEN [op |-> "get_nodes_with_open_end", args |-> <<value>>,
                    ret |-> Some(get_nodes_with_open_end(layout, value)),
                    panicked |-> FALSE]
              ELSE [op |-> "get_nodes_with_open_end", args |-> <<value>>,
                    ret |-> None, panicked |-> TRUE]
  /\ UNCHANGED <<layout, ownerVars, stateVars, zVars, overVars, drawVars, tableVars>>

NextQuery ==
  \/ /\ last.op \in {"new", "attach"}
     /\ \E tile \in all_tiles(SetId) : \E parent_index \in ParentInputs(layout) :
          Attach(tile, parent_index)
  \/ /\ last.op \in {"new", "attach"} /\ ~last.panicked
     /\ \E data \in PersistedInputs(layout) : Reload(data)
  \/ \E value \in EndValueInputs : GetNodesWithOpenEnd(value)

SpecQuery == Init /\ [][NextQuery]_vars

(***************************************************************************)
(* Boneyard (dominoes-state/src/boneyard.rs)                               *)
(***************************************************************************)
\* the tiles of a set in ordinal order, as Configuration::all_tiles holds them
tiles_in_order(set_id) == [i \in 1..set_size(set_id) |-> i - 1]

reversed(s) == [i \in 1..Len(s) |-> s[Len(s) + 1 - i]]

\* outcomes of tiles.shuffle(&mut rng()) that are explored
Shuffles(s) == {s, reversed(s)}

\* Boneyard::draw: [boneyard, ret]
draw(by) ==
  IF by.next < Len(by.tiles)
    THEN [boneyard |-> [by EXCEPT !.next = @ + 1], ret |-> Some(by.tiles[by.next + 1])]
    ELSE [boneyard |-> by, ret |-> None]

(***************************************************************************)
(* DominoesState (dominoes-state/src/dominoes_state.rs)                    *)
(***************************************************************************)
\* the assertion of DominoesState::can_play_tile
can_play_tile_ok(l, end) == is_empty(l) => end = None

\* DominoesState::can_play_tile
can_play_tile(l, tile, end) ==
  LET a == as_tuple(tile)[1]
      b == as_tuple(tile)[2]
  IN  IF ~is_empty(l)
        THEN IF end # None
               THEN (a = end[1] \/ b = end[1]) /\ l.end_counts[end[1] + 1] > 0
               ELSE l.end_counts[a + 1] > 0 \/ l.end_counts[b + 1] > 0
        ELSE is_double(tile)

\* the outcomes of open.iter_all().find(|(_, values)| values.contains(&matched_end)):
\* any node whose slot holds the value (the map's iteration order is arbitrary)
find_open(l, matched_end) ==
  LET hits == {k \in DOMAIN l.open : \E i \in 1..Len(l.open[k]) : l.open[k][i] = matched_end}
  IN  IF hits = {} THEN {None} ELSE {Some(k) : k \in hits}

\* DominoesState::play_tile, the Some(matched_end) arm, given the node found
play_on_end(l, z, tile, matched_end, found) ==
  IF found = None
    THEN [layout |-> l, fingerprint |-> z, panicked |-> TRUE]
    ELSE LET r == attach(l, tile, found)
         IN  IF r.panicked
               THEN [layout |-> r.layout, fingerprint |-> z, panicked |-> TRUE]
               ELSE LET new_end == r.ret[1][1]
                        new_end_change == r.ret[1][2]
                        z1 == add_tile(z, tile)
                        matched_count == open_count(r.layout, matched_end)
                        z2 == change_end_count(z1, matched_end, matched_count + 1, matched_count)
                        new_end_count == open_count(r.layout, new_end)
                    IN  IF new_end_count >= new_end_change
                          THEN [layout |-> r.layout,
                                fingerprint |-> change_end_count(z2, new_end,
                                                  new_end_count - new_end_change, new_end_count),
                                panicked |-> FALSE]
                          ELSE [layout |-> r.layout, fingerprint |-> z2, panicked |-> TRUE]

\* DominoesState::play_tile, the None arm
play_first(l, z, tile) ==
  IF ~is_empty(l)
    THEN [layout |-> l, fingerprint |-> z, panicked |-> TRUE]
    ELSE LET r == attach(l, tile, None)
         IN  IF r.panicked
               THEN [layout |-> r.layout, fingerprint |-> z, panicked |-> TRUE]
               ELSE LET new_end == r.ret[1][1]
                        new_end_change == r.ret[1][2]
                        z1 == add_tile(z, tile)
                    IN  IF open_count(r.layout, new_end) = new_end_change
                          THEN [layout |-> r.layout,
                                fingerprint |-> change_end_count(z1, new_end, 0, new_end_change),
                                panicked |-> FALSE]
                          ELSE [layout |-> r.layout, fingerprint |-> z1, panicked |-> TRUE]

\* DominoesState::play_tile up to update_consecutive_passes: [layout, fingerprint, panicked]
play_tile(l, z, tile, end, found) ==
  IF ~(can_play_tile_ok(l, end) /\ can_play_tile(l, tile, end))
    THEN [layout |-> l, fingerprint |-> z, panicked |-> TRUE]
    ELSE IF end # None
           THEN play_on_end(l, z, tile, end[1], found)
           ELSE play_first(l, z, tile)

\* DominoesState::update_consecutive_passes
update_consecutive_passes(passes, increment) == IF increment THEN passes + 1 ELSE 0

\* the ends a caller may name: none, or any pip value of the set
EndInputs == {None} \cup {Some(v) : v \in Values}

\* the tiles a player can still hold: a set has one copy of each tile, and
\* those on the layout have left the hands
TilesInHand(l) == all_tiles(SetId) \ {l.nodes[i].tile : i \in 1..Len(l.nodes)}

\* DominoesState::new
InitState ==
  /\ layout = Layout_new(SetId)
  /\ boneyard \in {[tiles |-> s, next |-> 0] : s \in Shuffles(tiles_in_order(SetId))}
  /\ whose_turn = 0
  /\ fingerprint = START
  /\ consecutive_passes = 0
  /\ last = NoCall
  /\ incremental = START
  /\ turn = 0
  /\ ZIdle
  /\ OthersIdle

\* state.play_tile(tile, end)
PlayTile(tile, end) ==
  /\ ~last.panicked
  /\ Len(layout.nodes) < MaxPlays
  /\ \E found \in (IF end = None THEN {None} ELSE find_open(layout, end[1])) :
       LET r == play_tile(layout, fingerprint, tile, end, found)
       IN  /\ layout' = r.layout
           /\ fingerprint' = r.fingerprint
           /\ consecutive_passes' = IF r.panicked THEN consecutive_passes
                                    ELSE update_consecutive_passes(consecutive_passes, FALSE)
           /\ last' = [op |-> "play_tile", args |-> <<tile, end, found>>,
                       ret |-> None, panicked |-> r.panicked]
  /\ UNCHANGED <<whose_turn, boneyard, ownerVars, zVars, overVars, drawVars, tableVars>>

\* state.pass()
\* a pass that also hands the turn to the other player
Pass_and_turn ==
  /\ ~last.panicked
  /\ consecutive_passes < MaxPasses
  /\ consecutive_passes' = update_consecutive_passes(consecutive_passes, TRUE)
  /\ whose_turn' = 1 - whose_turn
  /\ last' = [NoCall EXCEPT !.op = "pass"]
  /\ UNCHANGED <<layout, fingerprint, boneyard, ownerVars, zVars, overVars, drawVars, tableVars>>

Pass ==
  /\ ~last.panicked
  /\ consecutive_passes < MaxPasses
  /\ consecutive_passes' = update_consecutive_passes(consecutive_passes, TRUE)
  /\ last' = [NoCall EXCEPT !.op = "pass"]
  /\ UNCHANGED <<layout, fingerprint, whose_turn, boneyard, ownerVars, zVars, overVars, drawVars, tableVars>>

\* state.draw_tile()
DrawTile ==
  /\ ~last.panicked
  /\ LET r == draw(boneyard)
     IN  /\ boneyard' = r.boneyard
         /\ last' = [NoCall EXCEPT !.op = "draw_tile", !.ret = r.ret]
  /\ UNCHANGED <<layout, fingerprint, whose_turn, consecutive_passes, ownerVars, zVars, overVars, drawVars, tableVars>>

NextState ==
  \/ \E tile \in TilesInHand(layout) : \E end \in EndInputs : PlayTile(tile, end)
  \/ Pass
  \/ DrawTile

SpecState == InitState /\ [][NextState]_vars

(***************************************************************************)
(* A ZHash value updated by a collection of calls applied in any order     *)
(***************************************************************************)
\* a call of add_tile, turn or change_end_count with its arguments
AddTileCall(tile) == [op |-> "add_tile", a |-> tile, b |-> 0, c |-> 0]

TurnCall == [op |-> "turn", a |-> 0, b |-> 0, c |-> 0]

ChangeEndCountCall(value, old_count, new_count) ==
  [op |-> "change_end_count", a |-> value, b |-> old_count, c |-> new_count]

\* the calls explored: the first and last tile of the set, the lowest and
\* highest pip value, every pair of different counts up to MaxCount
Calls ==
  {AddTileCall(tile) : tile \in {0, set_size(SetId) - 1}}
  \cup {TurnCall}
  \cup {ChangeEndCountCall(value, cs[1], cs[2]) :
          value \in {0, SetId},
          cs \in {x \in (0..MaxCount) \X (0..MaxCount) :
                    change_end_count_ok(0, x[1], x[2])}}

\* the accumulator values a collection is applied to: the start value and a
\* value that holds constants the calls also use
StartValues ==
  {START, XOR(XOR(tile_value(0), end_value(0, 1)), turn_value)}

\* the effect of one call on a ZHash value
apply_call(z, call) ==
  IF call.op = "add_tile" THEN add_tile(z, call.a)
  ELSE IF call.op = "turn" THEN zturn(z)
  ELSE change_end_count(z, call.a, call.b, call.c)

RECURSIVE apply_all(_, _)
\* the calls of a set applied one after the other in one fixed order
apply_all(z, calls) ==
  IF calls = {} THEN z
  ELSE LET call == CHOOSE x \in calls : TRUE
       IN  apply_all(apply_call(z, call), calls \ {call})

InitZ ==
  /\ zstart \in StartValues
  /\ zcalls = {}
  /\ zpending = {}
  /\ acc = zstart
  /\ zlog = <<>>
  /\ layout = Layout_new(SetId)
  /\ last = NoCall
  /\ incremental = START
  /\ turn = 0
  /\ fingerprint = START
  /\ whose_turn = 0
  /\ consecutive_passes = 0
  /\ boneyard = [tiles |-> <<>>, next |-> 0]
  /\ OthersIdle

\* the caller decides on one more call to make
Collect(call) ==
  /\ Cardinality(zcalls) < MaxCalls
  /\ call \notin zcalls
  /\ zcalls' = zcalls \cup {call}
  /\ zpending' = zpending \cup {call}
  /\ UNCHANGED <<zstart, acc, zlog, layout, last, ownerVars, stateVars, overVars, drawVars, tableVars>>

\* the caller makes one of the calls it has decided on, in any order
Apply(call) ==
  /\ call \in zpending
  /\ acc' = apply_call(acc, call)
  /\ zpending' = zpending \ {call}
  /\ UNCHANGED <<zstart, zcalls, zlog, layout, last, ownerVars, stateVars, overVars, drawVars, tableVars>>

NextZ ==
  \/ \E call \in Calls : Collect(call)
  \/ \E call \in zpending : Apply(call)

SpecZ == InitZ /\ [][NextZ]_vars

(***************************************************************************)
(* A ZHash value updated by calls made one after the other                 *)
(***************************************************************************)
\* the calls made one after the other: the first and last tile of the set,
\* turn, and every change of the count of pip value 0 between different
\* counts up to MaxCount + 1 (room for three +1 steps)
DirectCalls ==
  {AddTileCall(tile) : tile \in {0, set_size(SetId) - 1}}
  \cup {TurnCall}
  \cup {ChangeEndCountCall(0, cs[1], cs[2]) :
          cs \in {x \in (0..(MaxCount + 1)) \X (0..(MaxCount + 1)) :
                    change_end_count_ok(0, x[1], x[2])}}

\* one call on the accumulator; zlog keeps the call and the value it was
\* made on
Call(call) ==
  /\ Len(zlog) < MaxCalls
  /\ acc' = apply_call(acc, call)
  /\ zlog' = Append(zlog, [call |-> call, before |-> acc])
  /\ UNCHANGED <<zstart, zcalls, zpending, layout, last, ownerVars, stateVars, overVars, drawVars, tableVars>>

NextZCalls == \E call \in DirectCalls : Call(call)

SpecZCalls == InitZ /\ [][NextZCalls]_vars

(***************************************************************************)
(* ZHash called with any arguments: from_state on the layouts that attach  *)
(* builds and on empty layouts loaded for the largest set and the set      *)
(* after it, change_end_count on a start value                             *)
(***************************************************************************)
\* the turn values from_state is called with
TurnInputs == 0..3

\* the pip values and counts change_end_count is called with: in the table,
\* its last index, and the index after it
IndexInputs == {0, 1, MAX_PIPS, MAX_PIPS + 1}

InitZChecked ==
  /\ layout = Layout_new(SetId)
  /\ last = NoCall
  /\ acc \in StartValues
  /\ zstart = START /\ zcalls = {} /\ zpending = {} /\ zlog = <<>>
  /\ incremental = START
  /\ turn = 0
  /\ fingerprint = START
  /\ whose_turn = 0
  /\ consecutive_passes = 0
  /\ boneyard = [tiles |-> <<>>, next |-> 0]
  /\ OthersIdle

\* a call is made on a layout that no ZHash call has been made on
LayoutCall == last.op \in {"new", "attach", "deserialize"} /\ ~last.panicked

\* an empty layout persisted for set_id is loaded
LoadEmpty(set_id) ==
  /\ last.op = "new"
  /\ \E r \in {deserialize([nodes |-> <<>>, set_id |-> set_id])} :
       /\ r.result = "ok"
       /\ layout' = r.layout
       /\ last' = [op |-> "deserialize", args |-> <<set_id>>, ret |-> None, panicked |-> FALSE]
  /\ UNCHANGED <<ownerVars, stateVars, zVars, overVars, drawVars, tableVars>>

\* ZHash::from_state(&layout, t): the assertions, then the value
FromState(t) ==
  /\ LayoutCall
  /\ last' = [op |-> "from_state", args |-> <<t>>,
              ret |-> IF from_state_ok(layout, t) THEN Some(from_state(layout, t)) ELSE None,
              panicked |-> ~from_state_ok(layout, t)]
  /\ UNCHANGED <<layout, ownerVars, stateVars, zVars, overVars, drawVars, tableVars>>

\* acc.change_end_count(value, old_count, new_count) on a value that no call
\* has been made on: the sanity check, the undo of the old count, the new
\* count; an abort at the second lookup leaves the first XOR done
ChangeEndCount(value, old_count, new_count) ==
  /\ last.op = "new"
  /\ acc' = IF change_end_count_ok(value, old_count, new_count)
              THEN change_end_count(acc, value, old_count, new_count)
            ELSE IF old_count # new_count /\ end_value_ok(value, old_count)
              THEN XOR(acc, end_value(value, old_count))
            ELSE acc
  /\ last' = [op |-> "change_end_count", args |-> <<value, old_count, new_count>>,
              before |-> acc, ret |-> None,
              panicked |-> ~change_end_count_ok(value, old_count, new_count)]
  /\ UNCHANGED <<layout, ownerVars, stateVars, zstart, zcalls, zpending, zlog, overVars, drawVars, tableVars>>

NextZChecked ==
  \/ /\ LayoutCall
     /\ \E tile \in all_tiles(SetId) : \E parent_index \in ParentInputs(layout) :
          Attach(tile, parent_index)
  \/ \E set_id \in {MAX_PIPS, MAX_PIPS + 1} : LoadEmpty(set_id)
  \/ \E t \in TurnInputs : FromState(t)
  \/ \E value \in IndexInputs : \E old_count \in IndexInputs : \E new_count \in IndexInputs :
       ChangeEndCount(value, old_count, new_count)

SpecZChecked == InitZChecked /\ [][NextZChecked]_vars

(***************************************************************************)
(* The text form of a layout: Display for Layout writes it                 *)
(***************************************************************************)
\* a text is a sequence of one-character strings; "{a}" for a pip value
\* below ten is its digit
digit(value) == <<"0", "1", "2", "3", "4", "5", "6", "7", "8", "9">>[value + 1]

\* format!("{a}|{b}")
tile_text(a, b) == <<digit(a), "|", digit(b)>>

RECURSIVE fmt_r_canonical(_, _, _)
\* fmt_r writing every tile smaller value first, without the swap
fmt_r_canonical(l, node_index, open) ==
  LET node == l.nodes[node_index + 1]
      a == as_tuple(node.tile)[1]
      b == as_tuple(node.tile)[2]
      RECURSIVE rest(_)
      rest(i) == IF i > Len(node.children) THEN <<")">>
                 ELSE (IF i > 1 THEN <<",">> ELSE <<>>)
                      \o fmt_r_canonical(l, node.children[i], b) \o rest(i + 1)
  IN  tile_text(a, b) \o
      (IF Len(node.children) = 0 THEN <<>>
       ELSE IF Len(node.children) = 1
         THEN <<"-">> \o fmt_r_canonical(l, node.children[1], b)
         ELSE <<"=", "(">> \o rest(1))

RECURSIVE fmt_r(_, _, _)
\* Layout::fmt_r for the node at node_index, open being the value the node
\* is written from
fmt_r(l, node_index, open) ==
  LET node == l.nodes[node_index + 1]
      t == as_tuple(node.tile)
      a == IF open = t[1] THEN t[1] ELSE t[2]
      b == IF open = t[1] THEN t[2] ELSE t[1]
      RECURSIVE rest(_)
      rest(i) == IF i > Len(node.children) THEN <<")">>
                 ELSE (IF i > 1 THEN <<",">> ELSE <<>>)
                      \o fmt_r(l, node.children[i], b) \o rest(i + 1)
  IN  tile_text(a, b) \o
      (IF Len(node.children) = 0 THEN <<>>
       ELSE IF Len(node.children) = 1
         THEN <<"-">> \o fmt_r(l, node.children[1], b)
         ELSE <<"=", "(">> \o rest(1))

\* the children of the nodes of a set
children_of(l, S) ==
  UNION {{l.nodes[i + 1].children[k] : k \in 1..Len(l.nodes[i + 1].children)} : i \in S}

RECURSIVE descend(_, _, _)
\* the nodes fmt_r reaches n levels below the nodes of S
descend(l, S, n) ==
  IF n = 0 \/ S = {} THEN S ELSE descend(l, children_of(l, S), n - 1)

\* fmt_r never returns: the recursion from the root comes back to a node it
\* is already writing (as many levels below the root as there are nodes),
\* and the call ends when the stack is used up
endless(l) == descend(l, {0}, Len(l.nodes)) # {}

\* impl Display for Layout (to_string): [text, panicked]
\* a rendering without the assertion on the root
fmt_any_root(l) ==
  IF l.nodes = <<>> THEN [text |-> <<>>, panicked |-> FALSE]
  ELSE IF endless(l) THEN [text |-> <<>>, panicked |-> TRUE]
  ELSE [text |-> fmt_r(l, 0, as_tuple(l.nodes[1].tile)[2]), panicked |-> FALSE]

fmt(l) ==
  IF l.nodes = <<>> THEN [text |-> <<>>, panicked |-> FALSE]
  ELSE IF ~is_double(l.nodes[1].tile) THEN [text |-> <<>>, panicked |-> TRUE]
  ELSE IF endless(l) THEN [text |-> <<>>, panicked |-> TRUE]
  ELSE [text |-> fmt_r(l, 0, as_tuple(l.nodes[1].tile)[2]), panicked |-> FALSE]

\* tuple_to_ordinal, for a pair in canonical form
\* the ordinal counted from the square of b
tuple_to_ordinal_square(a, b) == (b * b) \div 2 + a

tuple_to_ordinal(a, b) == (b * (b + 1)) \div 2 + a


RECURSIVE ascending(_)
\* the members of a set of numbers in increasing order
ascending(S) ==
  IF S = {} THEN <<>>
  ELSE LET least == CHOOSE x \in S : \A y \in S : x <= y
       IN  <<least>> \o ascending(S \ {least})

RECURSIVE to_tree_from(_, _)
\* the subtree that Layout::to_tree builds under the node at index: a tree is
\* [tile, children], the children being the nodes appended to it, in index
\* order
to_tree_from(l, index) ==
  LET appended == ascending({j \in 1..(Len(l.nodes) - 1) : l.nodes[j + 1].parent = Some(index)})
  IN  [tile |-> l.nodes[index + 1].tile,
       children |-> [k \in 1..Len(appended) |-> to_tree_from(l, appended[k])]]

\* the expect and the indexing of Layout::to_tree
to_tree_ok(l) ==
  \A index \in 1..(Len(l.nodes) - 1) :
    l.nodes[index + 1].parent # None /\ l.nodes[index + 1].parent[1] < index

\* Layout::to_tree: Option of the tree
to_tree(l) == IF l.nodes = <<>> THEN None ELSE Some(to_tree_from(l, 0))

(***************************************************************************)
(* layout_parser: the text form parsed into a tree                         *)
(***************************************************************************)
is_digit(c) == c \in {"0", "1", "2", "3", "4", "5", "6", "7", "8", "9"}

digit_value(c) ==
  CHOOSE v \in 0..9 : digit(v) = c

\* ParseState::next_is, pos counting from 0
next_is(chars, pos, c) == pos < Len(chars) /\ chars[pos + 1] = c

\* char::is_whitespace, and \s of the regex: the space and, of the blanks
\* outside ASCII, the no-break space U+00A0, written "nbsp"
is_whitespace(c) == c \in {" ", "nbsp"}

\* char::len_utf8: the number of bytes of a character in the input str
len_utf8(c) == IF c = "nbsp" THEN 2 ELSE 1

RECURSIVE byte_len(_, _, _)
\* the number of bytes of the characters of chars from index from up to,
\* not including, index to
byte_len(chars, from, to) ==
  IF from >= to THEN 0 ELSE len_utf8(chars[from + 1]) + byte_len(chars, from + 1, to)

RECURSIVE skip_whitespace(_, _)
\* ParseState::skip_whitespace: the position after the blanks at pos
skip_whitespace(chars, pos) ==
  IF pos < Len(chars) /\ is_whitespace(chars[pos + 1])
    THEN skip_whitespace(chars, pos + 1) ELSE pos

RECURSIVE digits_end(_, _)
\* the position after the digits at pos (\d+ is greedy)
digits_end(chars, pos) ==
  IF pos < Len(chars) /\ is_digit(chars[pos + 1]) THEN digits_end(chars, pos + 1) ELSE pos

RECURSIVE number_value(_, _, _, _)
\* the decimal value of chars[from..to), read being the value of the digits
\* already read
number_value(chars, from, to, read) ==
  IF from >= to THEN read
  ELSE number_value(chars, from + 1, to, 10 * read + digit_value(chars[from + 1]))

\* in a match of (\d+)\s*\|\s*(\d+) that starts at position start: the
\* position where "|" must be
bar_at(chars, start) == skip_whitespace(chars, digits_end(chars, start))

\* in such a match: the position where the second number must start
to_start_at(chars, start) == skip_whitespace(chars, bar_at(chars, start) + 1)

\* in such a match: the position after the second number
to_end_at(chars, start) == digits_end(chars, to_start_at(chars, start))

\* the match of (\d+)\s*\|\s*(\d+) that starts at the character at start,
\* if any: [found, from, to, len], len being full_match.len(), in bytes
match_at(chars, start) ==
  IF /\ digits_end(chars, start) > start
     /\ next_is(chars, bar_at(chars, start), "|")
     /\ to_end_at(chars, start) > to_start_at(chars, start)
    THEN [found |-> TRUE,
          from |-> number_value(chars, start, digits_end(chars, start), 0),
          to |-> number_value(chars, to_start_at(chars, start), to_end_at(chars, start), 0),
          len |-> byte_len(chars, start, to_end_at(chars, start))]
    ELSE [found |-> FALSE, from |-> 0, to |-> 0, len |-> 0]

RECURSIVE captures(_, _)
\* tile_regex.captures on the input from the character at start on: the
\* leftmost match
captures(chars, start) ==
  IF start >= Len(chars) THEN [found |-> FALSE, from |-> 0, to |-> 0, len |-> 0]
  ELSE IF match_at(chars, start).found THEN match_at(chars, start)
  ELSE captures(chars, start + 1)

RECURSIVE char_at_byte(_, _, _, _)
\* the indices of the character that starts at byte pos, the character at
\* index starting at byte bytes
char_at_byte(chars, pos, index, bytes) ==
  IF bytes = pos THEN {index}
  ELSE IF bytes > pos \/ index >= Len(chars) THEN {}
  ELSE char_at_byte(chars, pos, index + 1, bytes + len_utf8(chars[index + 1]))

\* ParseState::remaining_input: &input[pos..] slices the str at BYTE pos
\* while pos counts characters; the result is the set of the indices of the
\* character that starts at that byte, empty when the byte is inside a
\* character (the slice panics)
remaining_input(chars, pos) == char_at_byte(chars, pos, 0, 0)

\* ParseState::error
error(message, pos) ==
  [ok |-> FALSE, panicked |-> FALSE, message |-> message, position |-> pos]

\* the panic of a str slice that does not start at a character
slice_panic(pos) ==
  [ok |-> FALSE, panicked |-> TRUE, message |-> "not a char boundary", position |-> pos]

\* validate_connection that accepts every first number
validate_connection_any(parent_end, from) == TRUE

\* ParseState::validate_connection: TRUE when it returns Ok
validate_connection(parent_end, from) == parent_end = None \/ from = parent_end[1]

\* ParseState::advance_by
advance_by(chars, pos, count) == IF pos + count < Len(chars) THEN pos + count ELSE Len(chars)

\* ParseState::parse_tile once the regex has run without a panic: m is what
\* captures returned for the input at pos
parse_tile_found(chars, pos, parent_end, m) ==
  IF ~m.found THEN error("Expected tile", pos)
  ELSE IF m.from > MAX_PIPS \/ m.to > MAX_PIPS THEN error("out of range", pos)
  ELSE IF ~validate_connection(parent_end, m.from) THEN error("Invalid connection", pos)
  ELSE [ok |-> TRUE,
        tile |-> IF m.from <= m.to THEN tuple_to_ordinal(m.from, m.to)
                 ELSE tuple_to_ordinal(m.to, m.from),
        to |-> m.to,
        pos |-> advance_by(chars, pos, m.len)]

\* ParseState::parse_tile once the blanks are skipped: the regex is run on
\* remaining_input()
parse_tile_captures(chars, pos, remaining) ==
  IF remaining = {} THEN [panicked |-> TRUE]
  ELSE [panicked |-> FALSE, m |-> captures(chars, CHOOSE start \in remaining : TRUE)]

\* ParseState::parse_tile once the regex has run: c.m is what captures
\* returned for the input at pos
parse_tile_match(chars, pos, parent_end, c) ==
  IF c.panicked THEN slice_panic(pos)
  ELSE parse_tile_found(chars, pos, parent_end, c.m)

\* ParseState::parse_tile: [ok, tile, to, pos] or an error
parse_tile(chars, pos0, parent_end) ==
  parse_tile_match(chars, skip_whitespace(chars, pos0), parent_end,
                   parse_tile_captures(chars, skip_whitespace(chars, pos0),
                                       remaining_input(chars, skip_whitespace(chars, pos0))))

RECURSIVE parse_chain(_, _, _)
RECURSIVE parse_group_loop(_, _, _, _)
\* ParseState::parse_group
parse_group(chars, pos0, parent_end) ==
  IF ~next_is(chars, skip_whitespace(chars, pos0), "(")
    THEN error("Expected '('", skip_whitespace(chars, pos0))
    ELSE parse_group_loop(chars, skip_whitespace(chars, pos0) + 1, parent_end, <<>>)

\* parse_group_next that ends the group where neither "," nor ")" follows
parse_group_next_unclosed(chars, pos, parent_end, chains) ==
  IF next_is(chars, pos, ",") THEN parse_group_loop(chars, pos + 1, parent_end, chains)
  ELSE [ok |-> TRUE, chains |-> chains,
        pos |-> IF next_is(chars, pos, ")") THEN pos + 1 ELSE pos]

\* the loop of ParseState::parse_group after a chain is read and the blanks
\* are skipped: chains are those read so far, pos is where "," or ")" must be
parse_group_next(chars, pos, parent_end, chains) ==
  IF next_is(chars, pos, ",") THEN parse_group_loop(chars, pos + 1, parent_end, chains)
  ELSE IF next_is(chars, pos, ")") THEN [ok |-> TRUE, chains |-> chains, pos |-> pos + 1]
  ELSE error("Expected ',' or ')'", pos)

\* the loop of ParseState::parse_group after parse_chain returned chain
parse_group_chain(chars, parent_end, chains, chain) ==
  IF ~chain.ok THEN chain
  ELSE parse_group_next(chars, skip_whitespace(chars, chain.pos), parent_end,
                        Append(chains, chain.tree))

\* the loop of ParseState::parse_group, chains being those read so far
parse_group_loop(chars, pos0, parent_end, chains) ==
  parse_group_chain(chars, parent_end, chains,
                    parse_chain(chars, skip_whitespace(chars, pos0), parent_end))

\* ParseState::parse_chain after parse_group returned group for the double t
parse_chain_group(t, group) ==
  IF ~group.ok THEN group
  ELSE [ok |-> TRUE, tree |-> [tile |-> t.tile, children |-> group.chains], pos |-> group.pos]

\* ParseState::parse_chain after parse_chain returned child_chain for the
\* non-double t
parse_chain_child(t, child_chain) ==
  IF ~child_chain.ok THEN child_chain
  ELSE [ok |-> TRUE,
        tree |-> [tile |-> t.tile, children |-> <<child_chain.tree>>],
        pos |-> child_chain.pos]

\* parse_chain_symbol that reads "-" and "=" after a tile without looking at
\* the tile's shape
parse_chain_any_symbol(chars, t, pos) ==
  IF next_is(chars, pos, "=")
    THEN parse_chain_group(t, parse_group(chars, pos + 1, Some(t.to)))
  ELSE IF next_is(chars, pos, "-")
    THEN parse_chain_child(t, parse_chain(chars, pos + 1, Some(t.to)))
  ELSE [ok |-> TRUE, tree |-> [tile |-> t.tile, children |-> <<>>], pos |-> pos]

\* ParseState::parse_chain after the tile t is read and the blanks after it
\* are skipped: pos is where the symbol that continues the chain can be
parse_chain_symbol(chars, t, pos) ==
  IF is_double(t.tile)
    THEN IF next_is(chars, pos, "-") THEN error("Double followed by '-'", pos)
         ELSE IF next_is(chars, pos, "=")
           THEN parse_chain_group(t, parse_group(chars, pos + 1, Some(t.to)))
         ELSE [ok |-> TRUE, tree |-> [tile |-> t.tile, children |-> <<>>], pos |-> pos]
    ELSE IF next_is(chars, pos, "=") THEN error("Non-double followed by '='", pos)
         ELSE IF next_is(chars, pos, "-")
           THEN parse_chain_child(t, parse_chain(chars, pos + 1, Some(t.to)))
         ELSE [ok |-> TRUE, tree |-> [tile |-> t.tile, children |-> <<>>], pos |-> pos]

\* ParseState::parse_chain after parse_tile returned t
parse_chain_tile(chars, t) ==
  IF ~t.ok THEN t ELSE parse_chain_symbol(chars, t, skip_whitespace(chars, t.pos))

\* ParseState::parse_chain: [ok, tree, pos] or an error
parse_chain(chars, pos0, parent_end) ==
  parse_chain_tile(chars, parse_tile(chars, skip_whitespace(chars, pos0), parent_end))

\* layout_parser::parse after parse_chain returned layout_
parse_end(input, layout_) ==
  IF ~layout_.ok THEN layout_
  ELSE IF skip_whitespace(input, layout_.pos) < Len(input)
    THEN error("Unexpected characters after layout", skip_whitespace(input, layout_.pos))
  ELSE [ok |-> TRUE, panicked |-> FALSE, tree |-> layout_.tree]

\* layout_parser::parse: [ok, tree] or an error
parse(input) == parse_end(input, parse_chain(input, 0, None))

\* the layout is written as text
ToText ==
  /\ ~last.panicked
  /\ last.op \notin {"to_string", "parse"}
  /\ \E r \in {fmt(layout)} :
       last' = [op |-> "to_string", args |-> <<>>,
                ret |-> IF r.panicked THEN None ELSE Some(r.text),
                panicked |-> r.panicked]
  /\ UNCHANGED <<layout, ownerVars, stateVars, zVars, overVars, drawVars, tableVars>>

\* a text as its author lays it out: a written tile [from, to]; the blanks
\* around it ("" none, " " around each of its tokens, or one wide blank in
\* front); the characters written instead of the tile, if any; the symbol
\* that follows it ("-", "=" or none); the character of the group that is
\* left out ("(", ")", "," or none); the written tiles that follow the
\* symbol; the characters written after all that
written_leaf(from, to) ==
  [from |-> from, to |-> to, blank |-> "", instead |-> <<>>, sep |-> "",
   omit |-> "", children |-> <<>>, after |-> <<>>]

\* what an author writes where a tile belongs: other tokens, the same with
\* a blank between two of them, a first or second number out of range, the
\* start of a tile
Instead ==
  << <<"(", "(", "(">>, <<"(", " ", "(", "(">>,
     <<"2", "2", "|", "0">>, <<"0", "|", "2", "2">>, <<"0", "|">> >>

\* no change to what is written
NoEdit == [node |-> 0 - 1, kind |-> "none", value |-> 0]

\* the nodes whose written form is changed: the newest node and its parent
EditNodes(l) ==
  LET newest == Len(l.nodes) - 1
      up == l.nodes[newest + 1].parent
  IN  {newest} \cup (IF up = None THEN {} ELSE {up[1]})

\* the changes an author makes at one node of a layout: another first value
\* ("from"); another symbol after the tile ("sep"); another group of leaves
\* after the tile's "=", none or the two largest numbers of them ("group");
\* blanks around the tile ("blank"); other characters instead of the tile
\* ("instead"), also followed by a group of one double ("skip"); a group
\* without its "(", ")" or "," ("omit"); a character after the subtree
\* ("after")
Edits(l) ==
  {NoEdit}
  \cup {[node |-> i, kind |-> "from", value |-> v] : i \in EditNodes(l), v \in {1}}
  \cup {[node |-> i, kind |-> "sep", value |-> v] : i \in EditNodes(l), v \in {1, 2, 3}}
  \cup {[node |-> i, kind |-> "group", value |-> v] :
          i \in EditNodes(l), v \in {0, MaxGroup - 1, MaxGroup}}
  \cup {[node |-> i, kind |-> "blank", value |-> v] : i \in EditNodes(l), v \in {2, 3}}
  \cup {[node |-> i, kind |-> "instead", value |-> v] :
          i \in EditNodes(l), v \in {1, 3, 4, 5}}
  \cup {[node |-> i, kind |-> "skip", value |-> v] : i \in EditNodes(l), v \in {1, 2}}
  \cup {[node |-> i, kind |-> "omit", value |-> v] : i \in EditNodes(l), v \in {2, 3, 4}}
  \cup {[node |-> i, kind |-> "after", value |-> 0] : i \in EditNodes(l)}

RECURSIVE written(_, _, _, _)
\* the subtree of the node at node_index laid out as Layout::fmt_r writes it,
\* with the change edit made at its node
written(l, node_index, open, edit) ==
  LET node == l.nodes[node_index + 1]
      t == as_tuple(node.tile)
      a == IF open = t[1] THEN t[1] ELSE t[2]
      b == IF open = t[1] THEN t[2] ELSE t[1]
      kind == IF edit.node = node_index THEN edit.kind ELSE "none"
      kept == [k \in 1..Len(node.children) |-> written(l, node.children[k], b, edit)]
      usual == IF Len(node.children) = 0 THEN ""
               ELSE IF Len(node.children) = 1 THEN "-" ELSE "="
  IN  [from |-> IF kind = "from" THEN (a + edit.value) % (SetId + 1) ELSE a,
       to |-> b,
       blank |-> IF kind = "blank" THEN <<"", " ", "nbsp">>[edit.value] ELSE "",
       instead |-> IF kind \in {"instead", "skip"} THEN Instead[edit.value] ELSE <<>>,
       sep |-> IF kind = "sep" THEN <<"", "-", "=">>[edit.value]
               ELSE IF kind \in {"group", "skip"} THEN "="
               ELSE usual,
       omit |-> IF kind = "omit" THEN <<"", "(", ")", ",">>[edit.value] ELSE "",
       children |-> IF kind = "group"
                      THEN [k \in 1..edit.value |-> written_leaf(b, (b + k) % (SetId + 1))]
                    ELSE IF kind = "skip" THEN <<written_leaf(b, b)>>
                    ELSE kept,
       after |-> IF kind = "after" THEN <<"x">> ELSE <<>>]

\* the tile of a laid-out tree as it is written, or what is written instead
write_tile(w) ==
  IF w.instead # <<>> THEN w.instead
  ELSE IF w.blank = " " THEN <<" ", digit(w.from), " ", "|", " ", digit(w.to), " ">>
  ELSE IF w.blank = "nbsp" THEN <<"nbsp">> \o tile_text(w.from, w.to)
  ELSE tile_text(w.from, w.to)

RECURSIVE write(_)
RECURSIVE write_list(_, _, _)
\* the texts of the laid-out trees ws[i], ws[i + 1], ... with comma between
\* them
write_list(ws, i, comma) ==
  IF i > Len(ws) THEN <<>>
  ELSE (IF i > 1 THEN <<comma>> ELSE <<>>) \o write(ws[i]) \o write_list(ws, i + 1, comma)

\* the text of a laid-out tree
write(w) ==
  write_tile(w)
  \o (IF w.sep = "" THEN <<>>
      ELSE IF w.sep = "-" THEN <<"-">> \o write_list(w.children, 1, ",")
      ELSE <<"=">>
           \o (IF w.blank = " " THEN <<" ">> ELSE <<>>)
           \o (IF w.omit = "(" THEN <<>> ELSE <<"(">>)
           \o write_list(w.children, 1, IF w.omit = "," THEN " " ELSE ",")
           \o (IF w.omit = ")" THEN <<>> ELSE <<")">>))
  \o w.after

RECURSIVE parts(_)
\* a laid-out tree and the laid-out trees below it
parts(w) == {w} \cup UNION {parts(w.children[k]) : k \in 1..Len(w.children)}

\* the laid-out trees whose texts are parsed: the layout as it is, the
\* layout with one change, and every subtree of these on its own
WrittenInputs(l) ==
  IF l.nodes = <<>> \/ Len(l.nodes) > MaxWritten THEN {}
  ELSE LET open == as_tuple(l.nodes[1].tile)[2]
       IN  UNION {parts(written(l, 0, open, edit)) : edit \in Edits(l)}

\* the text that is parsed as it is: what to_string wrote for the layout
TextInputs(l) ==
  {fmt(l).text}

\* to_string and parse are called on a layout that no call has aborted on,
\* once each
TextCall == ~last.panicked /\ last.op \notin {"to_string", "parse"}

\* a text is parsed; ret is the outcome: the tree, the error or the panic
FromText(input) ==
  /\ TextCall
  /\ \E r \in {parse(input)} :
       last' = [op |-> "parse", args |-> <<input>>, ret |-> Some(r),
                panicked |-> r.panicked]
  /\ UNCHANGED <<layout, ownerVars, stateVars, zVars, overVars, drawVars, tableVars>>

\* layout_parser::parse called with the text of a laid-out tree; the call
\* keeps the laid-out tree its text was written from
FromWritten(w) ==
  /\ TextCall
  /\ \E r \in {parse(write(w))} :
       last' = [op |-> "parse", args |-> <<write(w)>>, written |-> w,
                ret |-> Some(r), panicked |-> r.panicked]
  /\ UNCHANGED <<layout, ownerVars, stateVars, zVars, overVars, drawVars, tableVars>>

\* to_string and parse leave the layout as it is, so the layouts are built
\* by the attaches alone: a text call is the last call on its layout
NextText ==
  \/ /\ last.op \notin {"to_string", "parse"}
     /\ \E tile \in all_tiles(SetId) : \E parent_index \in ParentInputs(layout) :
          Attach(tile, parent_index)
  \/ ToText
  \/ TextCall /\ \E input \in TextInputs(layout) : FromText(input)
  \/ TextCall /\ \E w \in WrittenInputs(layout) : FromWritten(w)

SpecText == Init /\ [][NextText]_vars

(***************************************************************************)
(* Properties                                                              *)
(***************************************************************************)
\* C1: in the game state, after any sequence of successful play_tile, pass
\* and draw_tile calls, the stored fingerprint equals
\* ZHash::from_state(layout, whose_turn).
C1_FingerprintIsFromState ==
  ~last.panicked => fingerprint = from_state(layout, whose_turn)

\* the last call was a successful attach
AttachSucceeded == last.op = "attach" /\ ~last.panicked

\* node i (0-based) of the layout
Node(i) == layout.nodes[i + 1]

\* C2: an owner that starts from the start accumulator and an empty layout,
\* applies add_tile and one change_end_count(value, before, after) per changed
\* total after every successful attach, and turn() on every turn change, holds
\* an accumulator equal to from_state(layout, turn).
C2_IncrementalIsFromState ==
  ~last.panicked => incremental = from_state(layout, turn)

\* C2 witness: a third tile, a double, has been attached onto an open end of
\* its own value (one value's total both falls and rises)
C2_Witness ==
  /\ AttachSucceeded
  /\ Len(layout.nodes) = 3
  /\ is_double(Node(2).tile)
  /\ ~is_double(Node(1).tile)
  /\ turn = 1
  /\ incremental = from_state(layout, turn)

\* the number of entries equal to value over all slots of the index of l
EntryCount(l, value) ==
  Cardinality({ki \in UNION {{<<k, i>> : i \in 1..Len(l.open[k])} : k \in DOMAIN l.open} :
                 l.open[ki[1]][ki[2]] = value})

\* every running total of l equals the number of index entries of its value
TotalsMatchIndex(l) ==
  \A value \in 0..(Len(l.end_counts) - 1) : open_count(l, value) = EntryCount(l, value)

\* C3: after any sequence of successful attach calls, and in the layout a
\* successful deserialization returns, open_count(v) equals the number of
\* entries equal to v over all nodes' slots, for every pip value v.
C3_TotalsMatchIndex ==
  /\ ~last.panicked => TotalsMatchIndex(layout)
  /\ (last.op = "deserialize" /\ last.ret # None) => TotalsMatchIndex(last.ret[1])

\* C3 witness: a layout grown by three attaches, one of them consuming one of
\* a double's two entries, has been persisted and loaded again
C3_Witness ==
  /\ last.op = "deserialize" /\ last.ret # None
  /\ Len(layout.nodes) = 3
  /\ 0 \in DOMAIN last.ret[1].open /\ Len(last.ret[1].open[0]) = 1
  /\ \E k \in DOMAIN last.ret[1].open : Len(last.ret[1].open[k]) = 2
  /\ \E value \in Values : open_count(layout, value) = 2 /\ EntryCount(layout, value) = 2

\* the slot of node i in the index of l, empty when the index has no such key
Slot(l, i) == IF i \in DOMAIN l.open THEN l.open[i] ELSE <<>>

\* the pip values of a tile
Pips(tile) == {as_tuple(tile)[1], as_tuple(tile)[2]}

IsRoot(node) == node.parent = None

\* C4: in every layout reachable by attach each slot lists the node's
\* unconsumed pip identities: a double lists its value 2 - (number of
\* children) times; a non-root non-double lists the value it does not share
\* with its parent once while it has no child, and nothing once it has one; a
\* node with nothing to list has no slot.
C4_SlotsListUnconsumed ==
  ~last.panicked =>
    /\ DOMAIN layout.open \subseteq 0..(Len(layout.nodes) - 1)
    /\ \A k \in DOMAIN layout.open : layout.open[k] # <<>>
    /\ \A i \in 0..(Len(layout.nodes) - 1) :
         LET node == Node(i)
             unshared == Pips(node.tile) \ Pips(Node(node.parent[1]).tile)
         IN  IF is_double(node.tile)
               THEN Slot(layout, i) = [j \in 1..(2 - Len(node.children)) |-> as_tuple(node.tile)[1]]
               ELSE IsRoot(node) \/
                    IF node.children = <<>>
                      THEN /\ Len(Slot(layout, i)) = 1
                           /\ Slot(layout, i)[1] \in Pips(node.tile)
                           /\ unshared # {} => Slot(layout, i)[1] \in unshared
                      ELSE Slot(layout, i) = <<>>

\* C4 witness: a root double with both ends consumed and no slot, a non-double
\* with a child and no slot, a non-double leaf listing one value and a
\* non-root double listing its value twice
C4_Witness ==
  /\ AttachSucceeded
  /\ Len(layout.nodes) = 4
  /\ Len(Node(0).children) = 2 /\ 0 \notin DOMAIN layout.open
  /\ \E i \in 1..3 : ~is_double(Node(i).tile) /\ Len(Node(i).children) = 1
                     /\ i \notin DOMAIN layout.open
  /\ \E i \in 1..3 : ~is_double(Node(i).tile) /\ Node(i).children = <<>>
                     /\ Len(Slot(layout, i)) = 1
  /\ \E i \in 1..3 : is_double(Node(i).tile) /\ Len(Slot(layout, i)) = 2

\* C5: in every layout reachable by attach every non-root node's tile shares
\* a pip value with its parent's tile, a non-double has at most one child and
\* a double at most two.
C5_TreeShape ==
  ~last.panicked =>
    \A i \in 0..(Len(layout.nodes) - 1) :
      LET node == Node(i)
      IN  /\ ~IsRoot(node) => Pips(node.tile) \cap Pips(Node(node.parent[1]).tile) # {}
          /\ Len(node.children) <= (IF is_double(node.tile) THEN 2 ELSE 1)

\* C5 witness: a double with a parent and two children (three connections),
\* its children being non-doubles
C5_Witness ==
  /\ AttachSucceeded
  /\ \E i \in 1..(Len(layout.nodes) - 1) :
       /\ is_double(Node(i).tile)
       /\ Len(Node(i).children) = 2
       /\ \A j \in 1..2 : ~is_double(Node(Node(i).children[j]).tile)

\* the number of entries equal to value in a slot
Occ(slot, value) == Cardinality({i \in 1..Len(slot) : slot[i] = value})

\* the other pip value of a tile (the same value for a double)
OtherPip(tile, value) ==
  IF as_tuple(tile)[1] = value THEN as_tuple(tile)[2] ELSE as_tuple(tile)[1]

\* this step is a successful attach of a tile to a parent
AttachedToParent ==
  last'.op = "attach" /\ ~last'.panicked /\ last'.args[2] # None

\* what a successful attach of tile to node p changes, matched being the value
\* that connects them and n the index of the new node
AttachEffect(tile, p, n, matched) ==
  LET other == OtherPip(tile, matched)
      k == IF is_double(tile) THEN 2 ELSE 1
  IN  /\ Occ(Slot(layout, p), matched) >= 1
      /\ \A v \in Values :
           Occ(Slot(layout', p), v) = Occ(Slot(layout, p), v) - (IF v = matched THEN 1 ELSE 0)
      /\ Slot(layout, n) = <<>>
      /\ Slot(layout', n) = [j \in 1..k |-> other]
      /\ \A i \in (DOMAIN layout.open \cup DOMAIN layout'.open) \ {p, n} :
           Slot(layout', i) = Slot(layout, i)
      /\ \A v \in Values :
           open_count(layout', v) = open_count(layout, v)
                                    - (IF v = matched THEN 1 ELSE 0)
                                    + (IF v = other THEN k ELSE 0)

\* C6: a successful non-root attach of tile t to node p removes one entry of
\* the matched value from p's slot and lowers that value's total by 1, gives
\* the new node 2 entries of its other value if t is a double and 1 otherwise
\* and raises that value's total by as much, and changes no other slot or total.
C6_AttachEffect ==
  [][AttachedToParent =>
       \E matched \in Pips(last'.args[1]) :
         AttachEffect(last'.args[1], last'.args[2][1], Len(layout.nodes), matched)]_vars

\* C6 witness: a double has been attached to a non-double, closing it, while
\* another node keeps its slot
C6_Witness ==
  /\ AttachSucceeded /\ last.args[2] # None
  /\ is_double(last.args[1])
  /\ ~is_double(Node(last.args[2][1]).tile)
  /\ last.args[2][1] \notin DOMAIN layout.open
  /\ Len(Slot(layout, Len(layout.nodes) - 1)) = 2
  /\ 0 \in DOMAIN layout.open

\* C7: every successful attach returns (v, k): v is the value open on the
\* appended node, k the number of entries added for it, 2 for a double and 1
\* otherwise, and open_count(v) is at least k right after the call.
C7_AttachReturn ==
  AttachSucceeded =>
    LET v == last.ret[1][1]
        k == last.ret[1][2]
        n == Len(layout.nodes) - 1
    IN  /\ last.ret # None
        /\ Node(n).tile = last.args[1]
        /\ k = (IF is_double(last.args[1]) THEN 2 ELSE 1)
        /\ Slot(layout, n) = [j \in 1..k |-> v]
        /\ open_count(layout, v) >= k

\* C7 witness: a non-double has been attached to a node other than the root
\* and returned its open value, which differs from the matched one
C7_Witness ==
  /\ AttachSucceeded /\ last.args[2] # None /\ last.args[2][1] > 0
  /\ ~is_double(last.args[1])
  /\ last.ret[1][2] = 1
  /\ last.ret[1][1] \notin Pips(Node(last.args[2][1]).tile)

\* the values listed in a slot
SlotValues(slot) == {slot[i] : i \in 1..Len(slot)}

\* the cases in which attach(tile, parent_index) on layout l is to abort
ParentMissing(l, parent_index) ==
  parent_index # None /\ parent_index[1] >= Len(l.nodes)

ParentClosed(l, parent_index) ==
  parent_index # None /\ parent_index[1] < Len(l.nodes) /\ Slot(l, parent_index[1]) = <<>>

FirstNotDouble(tile, parent_index) == parent_index = None /\ ~is_double(tile)

NoSharedOpenEnd(l, tile, parent_index) ==
  /\ parent_index # None /\ parent_index[1] < Len(l.nodes)
  /\ Pips(tile) \cap SlotValues(Slot(l, parent_index[1])) = {}

ParentOnEmpty(l, parent_index) == parent_index # None /\ l.nodes = <<>>

NoParentOnNonEmpty(l, parent_index) == parent_index = None /\ l.nodes # <<>>

AbortCase(l, tile, parent_index) ==
  \/ ParentMissing(l, parent_index)
  \/ ParentClosed(l, parent_index)
  \/ FirstNotDouble(tile, parent_index)
  \/ NoSharedOpenEnd(l, tile, parent_index)
  \/ ParentOnEmpty(l, parent_index)
  \/ NoParentOnNonEmpty(l, parent_index)

\* this step is a call of attach
AttachCalled == last'.op = "attach"

\* C8: attach aborts when the parent index does not exist, when the parent
\* has no open end left, when the parent is omitted and the tile is not a
\* double, when the tile shares no pip value with an open end of the parent,
\* when a parent is supplied on an empty tree, and when the parent is omitted
\* on a non-empty tree.
C8_AttachAborts ==
  [][(AttachCalled /\ AbortCase(layout, last'.args[1], last'.args[2])) => last'.panicked]_vars

\* C8 witness: attach has aborted for a tile that shares a pip value with the
\* parent's tile but none with the parent's open ends
C8_Witness ==
  /\ last.op = "attach" /\ last.panicked
  /\ last.args[2] # None /\ last.args[2][1] < Len(layout.nodes)
  /\ Slot(layout, last.args[2][1]) # <<>>
  /\ Pips(last.args[1]) \cap Pips(Node(last.args[2][1]).tile) # {}
  /\ Pips(last.args[1]) \cap SlotValues(Slot(layout, last.args[2][1])) = {}

\* C9: whenever attach aborts the layout is as it was before the call: no
\* node appended, no open-end entry added or removed, no total changed.
C9_AbortLeavesLayout ==
  [][(AttachCalled /\ last'.panicked) => layout' = layout]_vars

\* C10: from any accumulator value, a collection of add_tile, turn and
\* change_end_count calls yields the same final accumulator in whatever order
\* the calls are applied: the order taken equals one fixed order.
C10_OrderIndependent ==
  zpending = {} => acc = apply_all(zstart, zcalls)

\* C10 witness: three calls, one of each kind, have all been applied to an
\* accumulator that already held the constants they touch
C10_Witness ==
  /\ zpending = {} /\ zstart # START
  /\ Cardinality(zcalls) = 3
  /\ {call.op : call \in zcalls} = {"add_tile", "turn", "change_end_count"}
  /\ AddTileCall(0) \in zcalls
  /\ acc = apply_all(zstart, zcalls)

\* the accumulator after the i-th logged call
After(i) == IF i = Len(zlog) THEN acc ELSE zlog[i + 1].before

\* logged calls i and i + 1 undo each other: turn twice, add_tile of one tile
\* twice, or change_end_count(v, a, b) then change_end_count(v, b, a)
InversePair(i) ==
  LET c1 == zlog[i].call
      c2 == zlog[i + 1].call
  IN  \/ c1.op = "turn" /\ c2.op = "turn"
      \/ c1.op = "add_tile" /\ c2.op = "add_tile" /\ c1.a = c2.a
      \/ /\ c1.op = "change_end_count" /\ c2.op = "change_end_count"
         /\ c1.a = c2.a /\ c1.b = c2.c /\ c1.c = c2.b

\* C11: from any accumulator value, turn() twice, add_tile(x) twice, and
\* change_end_count(v, a, b) followed by change_end_count(v, b, a) return the
\* accumulator to the value it had before the pair.
C11_SelfInverse ==
  \A i \in 1..(Len(zlog) - 1) : InversePair(i) => After(i + 1) = zlog[i].before

\* C11 witness: after one call that changed the accumulator, a
\* change_end_count and its reverse have been made and the accumulator is
\* back at the value between them
C11_Witness ==
  /\ Len(zlog) = 3
  /\ zstart # START
  /\ zlog[1].before # zlog[2].before
  /\ zlog[2].call.op = "change_end_count" /\ InversePair(2)
  /\ acc = zlog[2].before /\ acc # zlog[3].before

\* logged calls i and i + 1 change the count of one value from a to b and
\* from b to c, with a, b, c pairwise distinct
ChainedPair(i) ==
  LET c1 == zlog[i].call
      c2 == zlog[i + 1].call
  IN  /\ c1.op = "change_end_count" /\ c2.op = "change_end_count"
      /\ c1.a = c2.a /\ c1.c = c2.b /\ c1.b # c2.c

\* the three logged calls are +1 steps of one value from count n up
ThreePlusOnes(n) ==
  /\ Len(zlog) = 3
  /\ \A i \in 1..3 : zlog[i].call = ChangeEndCountCall(0, n + i - 1, n + i)

\* C12: change_end_count(v, a, b) followed by change_end_count(v, b, c), with
\* a, b, c pairwise distinct, leaves what one change_end_count(v, a, c)
\* produces; three successive +1 steps equal one +3 step.
C12_StepsCompose ==
  /\ \A i \in 1..(Len(zlog) - 1) :
       ChainedPair(i) =>
         After(i + 1) = change_end_count(zlog[i].before, zlog[i].call.a,
                                         zlog[i].call.b, zlog[i + 1].call.c)
  /\ \A n \in 0..(MaxCount - 2) :
       ThreePlusOnes(n) => acc = change_end_count(zlog[1].before, 0, n, n + 3)

\* C12 witness: three +1 steps from count 0 have been made on an accumulator
\* that held the constant of count 1
C12_Witness ==
  /\ ThreePlusOnes(0)
  /\ zstart # START
  /\ acc = change_end_count(zstart, 0, 0, 3)

\* how many nodes of l hold the tile
TileCount(l, tile) == Cardinality({i \in 1..Len(l.nodes) : l.nodes[i].tile = tile})

\* two layouts hold the same tiles, each as many times, and the same totals
SameKey(l1, l2) ==
  /\ \A tile \in all_tiles(SetId) : TileCount(l1, tile) = TileCount(l2, tile)
  /\ l1.end_counts = l2.end_counts

RECURSIVE KeyTiles(_, _)
\* the constants of the tiles from ordinal tile up that l holds an odd
\* number of times
KeyTiles(l, tile) ==
  IF tile >= set_size(SetId) THEN START
  ELSE XOR(IF TileCount(l, tile) % 2 = 1 THEN tile_value(tile) ELSE START,
           KeyTiles(l, tile + 1))

\* the accumulator determined by the placed tiles as a multiset, the totals
\* and the turn, whatever the order and the shape of the nodes
FromKey(l, t) ==
  LET ends == UNION {end_value(v, open_count(l, v)) : v \in Values}
  IN  XOR(XOR(KeyTiles(l, 0), ends), IF t = 0 THEN START ELSE turn_value)

\* a layout built in another order: 0|0, then 0|2 and 0|1 on the root
OtherBuild ==
  LET root == attach(Layout_new(SetId), 0, None).layout
      one == attach(root, 3, Some(0)).layout
  IN  attach(one, 1, Some(0)).layout

\* C13: from_state depends only on the multiset of placed tiles, the totals
\* and the turn: for every layout, however built or shaped, and either turn
\* it equals the value that this key alone determines, so two layouts with
\* the same key get the same accumulator.
C13_FromStateOfKey ==
  /\ ~last.panicked =>
       \A t \in {0, 1} : from_state(layout, t) = FromKey(layout, t)
  /\ (last.op = "deserialize" /\ last.ret # None) =>
       \A t \in {0, 1} : from_state(last.ret[1], t) = FromKey(last.ret[1], t)

\* C13 witness: the layout holds the tiles and totals of a layout built in
\* another order, its nodes differ from that one's, and the two accumulators
\* agree
C13_Witness ==
  /\ AttachSucceeded
  /\ layout.nodes # OtherBuild.nodes
  /\ SameKey(layout, OtherBuild)
  /\ turn = 1
  /\ from_state(layout, turn) = from_state(OtherBuild, turn)

\* the last call loaded what serialize wrote for the layout
RoundTrip == last.op = "deserialize" /\ last.args[1] = serialize(layout)

\* C14: for every tree built by successful attach calls, serialize followed
\* by deserialize succeeds and yields a layout with the same open_count(v)
\* and the same set get_nodes_with_open_end(v) for every pip value v.
C14_RoundTrip ==
  RoundTrip =>
    /\ last.ret # None /\ ~last.panicked
    /\ \A v \in Values :
         /\ open_count(last.ret[1], v) = open_count(layout, v)
         /\ get_nodes_with_open_end(last.ret[1], v) = get_nodes_with_open_end(layout, v)

\* C14 witness: a tree of four nodes has made the round trip: its root double
\* closed by two children, another double with one end consumed by its
\* parent and both others open, and a non-double with its own end open
C14_Witness ==
  /\ RoundTrip /\ last.ret # None
  /\ Len(layout.nodes) = 4
  /\ Len(Node(0).children) = 2
  /\ \E i \in 1..3 : is_double(Node(i).tile) /\ Len(Slot(last.ret[1], i)) = 2
  /\ \E i \in 1..3 : ~is_double(Node(i).tile) /\ Len(Slot(last.ret[1], i)) = 1
  /\ \E v \in Values : Cardinality(get_nodes_with_open_end(last.ret[1], v)) = 1
                       /\ open_count(last.ret[1], v) = 2

\* the value that connects node i to its parent: the parent's value if the
\* parent is a double, else the parent's value that does not connect the
\* parent to its own parent
RECURSIVE ConnectValue(_, _)
ConnectValue(l, i) ==
  LET p == l.nodes[i + 1].parent[1]
      pt == as_tuple(l.nodes[p + 1].tile)
  IN  IF is_double(l.nodes[p + 1].tile) THEN pt[1]
      ELSE OtherPip(l.nodes[p + 1].tile, ConnectValue(l, p))

\* node i as the text form is to show it: a double as v|v, any other tile
\* with the value that connects it to its parent first
WrittenTile(l, i) ==
  LET tile == l.nodes[i + 1].tile
      first == IF is_double(tile) THEN as_tuple(tile)[1] ELSE ConnectValue(l, i)
  IN  tile_text(first, OtherPip(tile, first))

RECURSIVE PreOrder(_, _)
\* the subtree of node i in pre-order: the node, then "-" and its child if it
\* has one, "=(", its children separated by "," and ")" if it has two
PreOrder(l, i) ==
  LET ch == l.nodes[i + 1].children
  IN  WrittenTile(l, i) \o
      (IF Len(ch) = 0 THEN <<>>
       ELSE IF Len(ch) = 1 THEN <<"-">> \o PreOrder(l, ch[1])
       ELSE <<"=", "(">> \o PreOrder(l, ch[1]) \o <<",">> \o PreOrder(l, ch[2]) \o <<")">>)

\* the last call wrote the layout as text
Wrote == last.op = "to_string" /\ ~last.panicked

ParsedOwnText == last.op = "parse" /\ last.args[1] = fmt(layout).text

\* C15: for every tree built by attach, whose root is a double, parse of the
\* output of to_string succeeds and yields the tree of the layout: the same
\* tiles, the same parent/child relation and the same order of siblings.
C15_TextRoundTrip ==
  (ParsedOwnText /\ layout.nodes # <<>>) =>
    /\ last.ret[1].ok
    /\ Some(last.ret[1].tree) = to_tree(layout)

\* the last call parsed a text and accepted it
Accepted == last.op = "parse" /\ last.ret[1].ok

RECURSIVE AtMostChildren(_, _, _)
\* every double of the tree has at most doubles children and every other tile
\* at most others
AtMostChildren(tree, doubles, others) ==
  /\ Len(tree.children) <= (IF is_double(tree.tile) THEN doubles ELSE others)
  /\ \A k \in 1..Len(tree.children) : AtMostChildren(tree.children[k], doubles, others)

\* C17: every tree that parse accepts is one that attach builds: its root is
\* a double, each non-double has at most one child and each double at most
\* two children.
C17_AcceptedIsAttachShaped ==
  Accepted =>
    /\ is_double(last.ret[1].tree.tile)
    /\ AtMostChildren(last.ret[1].tree, 2, 1)

\* the laid-out tile is written as a double
WrittenDouble(w) == w.from = w.to

\* the tile of the laid-out tree is followed by the symbol of the other
\* shape
OtherSymbol(w) ==
  /\ w.instead = <<>>
  /\ \/ w.sep = "-" /\ WrittenDouble(w)
     \/ w.sep = "=" /\ ~WrittenDouble(w)

RECURSIVE Faults(_)
RECURSIVE FaultsBelow(_, _)
\* what is wrong in the children k, k + 1, ... of a laid-out tree and below
\* them, in the order of the text: no comma before a further chain of a
\* group ("nocomma"), a child whose first written value differs from the
\* second written value of the tile it follows ("connection"), then what is
\* wrong in the child's own tree
FaultsBelow(w, k) ==
  IF k > Len(w.children) THEN <<>>
  ELSE (IF k > 1 /\ w.sep = "=" /\ w.omit = "," THEN <<"nocomma">> ELSE <<>>)
       \o (IF w.children[k].instead = <<>> /\ w.children[k].from # w.to
           THEN <<"connection">> ELSE <<>>)
       \o Faults(w.children[k]) \o FaultsBelow(w, k + 1)

\* what is wrong in a laid-out tree, in the order of its text: a blank
\* outside ASCII before the tile ("nbsp"), other characters instead of the
\* tile ("instead"), a double followed by "-" ("dash"), a non-double followed
\* by "=" ("equals"), a group without "(" ("noopen"), a symbol followed by
\* no tile ("missing"), what is wrong below, a group without ")"
\* ("noclose"), characters after the tree ("after")
Faults(w) ==
  (IF w.blank = "nbsp" THEN <<"nbsp">> ELSE <<>>)
  \o (IF w.instead # <<>> THEN <<"instead">> ELSE <<>>)
  \o (IF OtherSymbol(w) THEN <<IF w.sep = "-" THEN "dash" ELSE "equals">> ELSE <<>>)
  \o (IF w.sep = "=" /\ w.omit = "(" THEN <<"noopen">> ELSE <<>>)
  \o (IF w.sep # "" /\ w.children = <<>> THEN <<"missing">> ELSE <<>>)
  \o (IF w.sep = "" THEN <<>> ELSE FaultsBelow(w, 1))
  \o (IF w.sep = "=" /\ w.omit = ")" THEN <<"noclose">> ELSE <<>>)
  \o (IF w.after # <<>> THEN <<"after">> ELSE <<>>)

\* the laid-out tree whose text the last call parsed, if it parsed one
ParsedWritten ==
  IF last.op = "parse" /\ "written" \in DOMAIN last THEN {last.written} ELSE {}

\* the last call returned the error with this message
Refused(message) ==
  ~last.ret[1].ok /\ ~last.ret[1].panicked /\ last.ret[1].message = message

\* the last call returned an error
ReturnedError == ~last.ret[1].ok /\ ~last.ret[1].panicked

\* some tile of the laid-out tree has a blank outside ASCII in front
WideBlank(w) == \E k \in 1..Len(Faults(w)) : Faults(w)[k] = "nbsp"

C18_GroupCase ==
  \E w \in ParsedWritten :
    /\ WrittenDouble(w) /\ w.sep = "=" /\ Len(w.children) = 2
    /\ w.children[2].from # w.to
    /\ Faults(w) = <<"connection">>
    /\ Refused("Invalid connection")

\* some tile of the laid-out tree is followed by the symbol of the other
\* shape
WrongSymbol(w) == \E k \in 1..Len(Faults(w)) : Faults(w)[k] \in {"dash", "equals"}

RECURSIVE Depth(_)
\* the largest number of tiles above a tile that is followed by the symbol
\* of the other shape, 0 - 1 when there is none
Depth(w) ==
  LET own == IF OtherSymbol(w) THEN {0} ELSE {}
      below == IF w.sep = "" THEN {}
               ELSE {Depth(w.children[k]) + 1 : k \in 1..Len(w.children)} \ {0}
      all == own \cup below
  IN  IF all = {} THEN 0 - 1 ELSE CHOOSE d \in all : \A e \in all : e <= d

C19_DashCase ==
  \E w \in ParsedWritten :
    /\ Faults(w) # <<>> /\ Faults(w)[1] = "dash"
    /\ \A k \in 2..Len(Faults(w)) : Faults(w)[k] = "missing"
    /\ Depth(w) = 1
    /\ Refused("Double followed by '-'")

RECURSIVE GroupSizes(_)
\* the numbers of chains in the groups written after the doubles of a
\* laid-out tree
GroupSizes(w) ==
  (IF WrittenDouble(w) /\ w.sep = "=" THEN {Len(w.children)} ELSE {})
  \cup (IF w.sep = "" THEN {}
        ELSE UNION {GroupSizes(w.children[k]) : k \in 1..Len(w.children)})

\* C20: the group that follows a double holds 1 to 3 child chains: parse
\* returns an error for a text with an empty group and for a text with a
\* group of more than three chains.
C20_GroupOfOneToThree ==
  \A w \in ParsedWritten :
    (\E n \in GroupSizes(w) : n = 0 \/ n > 3) => ~last.ret[1].ok

\* parse returns an error for every text with an empty group
C20_EmptyGroupRefused ==
  \A w \in ParsedWritten : 0 \in GroupSizes(w) => ~last.ret[1].ok

\* a text that is a double and its empty group has been parsed and refused
C20_EmptyGroupCase ==
  \E w \in ParsedWritten :
    /\ WrittenDouble(w) /\ w.sep = "=" /\ w.children = <<>> /\ w.blank = ""
    /\ Refused("Expected tile")

\* a text that is a double and its group of four chains has been parsed and
\* accepted, the double of the tree having four children
C20_FourChainsCase ==
  \E w \in ParsedWritten :
    /\ WrittenDouble(w) /\ w.sep = "=" /\ Len(w.children) = 4
    /\ last.ret[1].ok
    /\ Len(last.ret[1].tree.children) = 4

\* at some place of the laid-out tree where a tile belongs, other characters
\* or none are written
NoTile(w) == \E k \in 1..Len(Faults(w)) : Faults(w)[k] \in {"instead", "missing"}

\* C21: parse returns an error, and no tree, whenever the characters at a
\* position where a tile is expected do not form a well-formed a|b token with
\* both values in range: it never skips other characters to reach a token
\* further on.
C21_NoTileIsError ==
  \A w \in ParsedWritten : (NoTile(w) /\ ~WideBlank(w)) => ReturnedError

\* a text that starts with "(((" where its first tile belongs, followed by
\* "=" and a group of one double, has been parsed and accepted: the double
\* of the group is taken for the first tile as well
C21_SkipCase ==
  \E w \in ParsedWritten :
    /\ w.instead = <<"(", "(", "(">> /\ w.sep = "=" /\ Len(w.children) = 1
    /\ WrittenDouble(w.children[1])
    /\ Accepted
    /\ last.ret[1].tree.tile = tuple_to_ordinal(w.children[1].from, w.children[1].to)
    /\ Len(last.ret[1].tree.children) = 1

\* parse returns an error for every text in which no tile is written where
\* one belongs and no tile follows further on, and for every text with a
\* number out of range in the place of its first tile
C21_NothingToSkipTo ==
  \A w \in ParsedWritten :
    /\ (w.instead # <<>> /\ w.sep = "" /\ w.after = <<>>) => ReturnedError
    /\ w.instead \in {Instead[3], Instead[4]} => Refused("out of range")

\* the first thing wrong in the laid-out tree, "" when nothing is
FirstFault(w) == IF Faults(w) = <<>> THEN "" ELSE Faults(w)[1]

C22_NoOpenCase ==
  \E w \in ParsedWritten : Faults(w) = <<"noopen">> /\ Refused("Expected '('")

\* a text whose only fault is a group without the "," between its two
\* chains has been parsed
C22_NoCommaCase ==
  \E w \in ParsedWritten : Faults(w) = <<"nocomma">> /\ Refused("Expected ',' or ')'")

\* a text whose only fault is a character after the whole layout has been
\* parsed
C22_TrailingCase ==
  \E w \in ParsedWritten :
    /\ Faults(w) = <<"after">> /\ w.after # <<>> /\ w.children # <<>>
    /\ Refused("Unexpected characters after layout")

\* the character is no blank
NotBlank(c) == ~is_whitespace(c)

\* the text without its blanks
Unspaced(text) == SelectSeq(text, NotBlank)

\* what a call of parse comes to: the tree, an error, or a panic
Outcome(r) ==
  IF r.panicked THEN [kind |-> "panic"]
  ELSE IF r.ok THEN [kind |-> "tree", tree |-> r.tree]
  ELSE [kind |-> "error"]

\* the laid-out tree is written with blanks between its tokens only: it has
\* blanks, and none of them stands where a "," belongs between two numbers
BlanksBetweenTokens(w) ==
  /\ w.omit # ","
  /\ Unspaced(write(w)) # write(w)

\* C23: inserting blanks between two tokens of a text, before its first or
\* after its last token, does not change the outcome of parse: the same
\* tree, or an error in both cases.
C23_BlanksInsignificant ==
  \A w \in ParsedWritten :
    BlanksBetweenTokens(w) => Outcome(last.ret[1]) = Outcome(parse(Unspaced(write(w))))

\* a text with a no-break space before its first tile and nothing else wrong
\* has been parsed: the call panics, and the text without the blank is
\* accepted
C23_WideBlankCase ==
  \E w \in ParsedWritten :
    /\ w.blank = "nbsp" /\ Faults(w) = <<"nbsp">>
    /\ last.panicked
    /\ parse(Unspaced(write(w))).ok

\* a text that starts with "( ((" where its first tile belongs has been
\* parsed and refused, and the text without the blank is accepted
C23_SkipCase ==
  \E w \in ParsedWritten :
    /\ w.instead = <<"(", " ", "(", "(">>
    /\ ReturnedError
    /\ parse(Unspaced(write(w))).ok

\* spaces around the tokens of a tile and between "=" and "(" do not change
\* the outcome of parse
C23_SpacesAroundTiles ==
  \A w \in ParsedWritten :
    w.blank = " " => Outcome(last.ret[1]) = Outcome(parse(Unspaced(write(w))))

\* a text with spaces around the tokens of its first tile and before the
\* group after it has been parsed and accepted
C23_SpacesCase ==
  \E w \in ParsedWritten :
    /\ Faults(w) = <<>> /\ w.blank = " " /\ w.sep = "="
    /\ Accepted

\* the node of a persisted form has more children than the shape of its
\* tile allows: more than two for a double, more than one for a non-double
TooManyForShape(node) ==
  Len(node.children) > (IF is_double(node.tile) THEN 2 ELSE 1)

\* the node of a persisted form has more than two children, or is a
\* non-double with a parent and more than one child
TooManyForPlace(node) ==
  \/ Len(node.children) > 2
  \/ ~is_double(node.tile) /\ node.parent # None /\ Len(node.children) > 1

\* the persisted form that the last call loaded
Loaded == IF last.op = "deserialize" THEN {last.args[1]} ELSE {}

\* the last call returned an error result and no layout
LoadRefused == last.ret = None /\ ~last.panicked

C24_DoubleCase ==
  \E data \in Loaded :
    /\ data.nodes # <<>>
    /\ is_double(data.nodes[1].tile) /\ Len(data.nodes[1].children) = 3
    /\ LoadRefused

\* a persisted form whose root is a non-double with two children has been
\* loaded and a layout returned
C24_RootCase ==
  \E data \in Loaded :
    /\ data.nodes # <<>>
    /\ ~is_double(data.nodes[1].tile) /\ Len(data.nodes[1].children) = 2
    /\ last.ret # None

\* the call of from_state that was made last
FromStateCalls == IF last.op = "from_state" THEN {last.args[1]} ELSE {}

\* the layout fits the table of open-end constants: a set up to MAX_PIPS
InTable(l) == Len(l.end_counts) <= MAX_PIPS + 1

C25_ReturnCase ==
  \E t \in FromStateCalls : t = 1 /\ layout.nodes # <<>> /\ last.ret # None

\* from_state has aborted for turn 0 on a layout loaded for the set after
\* MAX_PIPS
C25_LargeSetCase ==
  \E t \in FromStateCalls : t = 0 /\ ~InTable(layout) /\ last.panicked

\* the arguments of the call of change_end_count that was made last
ChangeEndCountCalls == IF last.op = "change_end_count" THEN {last.args} ELSE {}

\* C26: change_end_count(value, old, new) aborts whenever old equals new, and
\* the value is then the one it was called on.
C26_SameCountAborts ==
  \A c \in ChangeEndCountCalls :
    c[2] = c[3] => last.panicked /\ acc = last.before

\* change_end_count has been called with old = new = 1 for pip value 0 on a
\* value that holds the constant for (0, 1), and has aborted
C26_Witness ==
  \E c \in ChangeEndCountCalls :
    /\ c = <<0, 1, 1>> /\ last.before # START
    /\ last.panicked

\* change_end_count has been called with different counts and has returned
C26_ReturnCase ==
  \E c \in ChangeEndCountCalls : c[2] # c[3] /\ ~last.panicked /\ acc # last.before

\* the size of each side of the table of open-end constants is one more
\* than MAX_PIPS
OutOfTable(index) == index >= MAX_PIPS + 1

\* C27: an operation that looks up an open-end constant aborts when the pip
\* value or the count it looks up is 22 or more: change_end_count for its
\* value, old count and new count, from_state for each pip value of the
\* layout and its count.
C27_IndexChecked ==
  /\ \A c \in ChangeEndCountCalls :
       (OutOfTable(c[1]) \/ OutOfTable(c[2]) \/ OutOfTable(c[3])) => last.panicked
  /\ \A t \in FromStateCalls :
       (\E i \in 1..Len(layout.end_counts) :
          OutOfTable(i - 1) \/ OutOfTable(layout.end_counts[i]))
       => last.panicked /\ last.ret = None

\* change_end_count has been called with a new count of 22 and an old count
\* in the table, and has aborted
C27_Witness ==
  \E c \in ChangeEndCountCalls :
    /\ ~OutOfTable(c[1]) /\ ~OutOfTable(c[2]) /\ OutOfTable(c[3])
    /\ last.panicked

\* change_end_count has been called with a pip value of 22 and counts in the
\* table, and has aborted
C27_ValueCase ==
  \E c \in ChangeEndCountCalls :
    /\ OutOfTable(c[1]) /\ ~OutOfTable(c[2]) /\ ~OutOfTable(c[3]) /\ c[2] # c[3]
    /\ last.panicked

\* from_state has been called with turn 1 on a layout with 23 pip values and
\* has aborted
C27_FromStateCase ==
  \E t \in FromStateCalls : t = 1 /\ Len(layout.end_counts) = MAX_PIPS + 2 /\ last.panicked

\* change_end_count has been called with the last indices of the table and
\* has returned
C27_LastIndexCase ==
  \E c \in ChangeEndCountCalls :
    c[1] = MAX_PIPS /\ c[2] = MAX_PIPS /\ ~last.panicked

RECURSIVE xor_open_ends(_, _)
\* the constants of the pip values i - 1, i, ... that have open ends
xor_open_ends(end_counts, i) ==
  IF i > Len(end_counts) THEN START
  ELSE IF end_counts[i] = 0 THEN xor_open_ends(end_counts, i + 1)
  ELSE XOR(end_value(i - 1, end_counts[i]), xor_open_ends(end_counts, i + 1))

\* C28: the constant for count 0 is 0 for every pip value: from_state of an
\* empty layout with turn 0 is the start value, and from_state of any layout
\* is made of the tiles, the turn and the constants of the pip values that
\* have open ends.
C28_CountZeroIsZero ==
  /\ \A which \in 0..MAX_PIPS : end_value(which, 0) = START
  /\ \A t \in FromStateCalls :
       ~last.panicked =>
         /\ (layout.nodes = <<>> /\ t = 0) => last.ret = Some(START)
         /\ last.ret = Some(XOR(XOR(xor_tiles(layout.nodes, 1),
                                    xor_open_ends(layout.end_counts, 1)),
                                IF t # 0 THEN turn_value ELSE START))

\* from_state has returned for a layout with tiles, a pip value with open
\* ends and a pip value without
C28_Witness ==
  \E t \in FromStateCalls :
    /\ ~last.panicked /\ layout.nodes # <<>>
    /\ \E i \in 1..Len(layout.end_counts) : layout.end_counts[i] = 0
    /\ \E i \in 1..Len(layout.end_counts) : layout.end_counts[i] > 0

\* from_state has returned the start value for an empty layout and turn 0
C28_EmptyCase ==
  \E t \in FromStateCalls :
    t = 0 /\ layout.nodes = <<>> /\ last.ret = Some(START)

\* the pip value asked for by the call of get_nodes_with_open_end that was
\* made last and has returned
OpenEndQueries ==
  IF last.op = "get_nodes_with_open_end" /\ ~last.panicked THEN {last.args[1]} ELSE {}

\* the slot of node k of the index holds the value
SlotHolds(l, k, value) == \E i \in 1..Len(l.open[k]) : l.open[k][i] = value

\* C29: get_nodes_with_open_end(v) returns the indices of the nodes whose
\* slot of the index holds v, and none when the total of v is 0.
C29_NodesWithOpenEnd ==
  \A v \in OpenEndQueries :
    /\ last.ret = Some({k \in DOMAIN layout.open : SlotHolds(layout, k, v)})
    /\ open_count(layout, v) = 0 => last.ret = Some({})

\* on a loaded layout whose root is a non-double with both ends open, the
\* call for the second value of the root has returned no node
C29_SecondValueCase ==
  \E v \in OpenEndQueries :
    /\ 0 \in DOMAIN layout.open /\ Len(layout.open[0]) = 2
    /\ layout.open[0][1] # v /\ layout.open[0][2] = v
    /\ open_count(layout, v) = 1
    /\ last.ret = Some({})

\* the layout is one that attach built: its root is a double
AttachBuilt(l) == l.nodes # <<>> /\ is_double(l.nodes[1].tile)

\* on a layout whose root is a double, whether built by attach or loaded, the
\* call returns the indices of the nodes whose slot holds v
C29_DoubleRoot ==
  \A v \in OpenEndQueries :
    AttachBuilt(layout) =>
      last.ret = Some({k \in DOMAIN layout.open : SlotHolds(layout, k, v)})

\* on a layout of three nodes or more with a double root, the call has
\* returned two nodes or more
C29_DoubleRootCase ==
  \E v \in OpenEndQueries :
    /\ AttachBuilt(layout) /\ Len(layout.nodes) >= 3
    /\ \E ks \in {last.ret[1]} : Cardinality(ks) >= 2

(***************************************************************************)
(* rules: the conversions between ordinal and pair, called with any u8     *)
(* ordinal and with any pair of pips up to one more than MAX_PIPS, and     *)
(* each result converted back                                              *)
(***************************************************************************)
\* u8::MAX
U8_MAX == 255

\* the assertions of tuple_to_ordinal
tuple_to_ordinal_ok(a, b) == a <= b /\ tuple_to_ordinal(a, b) <= U8_MAX

\* the length of TUPLES with all its rows
TUPLES_LEN == Len(TUPLES) + Len(TUPLES_FROM_5)

\* the index of ordinal_to_tuple is in the table
ordinal_to_tuple_ok(ordinal) == ordinal < TUPLES_LEN

\* ordinal_to_tuple on any u8 ordinal: the lookup in TUPLES with all its rows
ordinal_to_tuple_u8(ordinal) ==
  IF ordinal < Len(TUPLES) THEN ordinal_to_tuple(ordinal)
  ELSE TUPLES_FROM_5[ordinal + 1 - Len(TUPLES)]

\* the record of a call of ordinal_to_tuple(ordinal); origin is the pair the
\* ordinal was converted from, if it was
ordinal_to_tuple_call(ordinal, origin) ==
  [op |-> "ordinal_to_tuple", args |-> <<ordinal>>, origin |-> origin,
   ret |-> IF ordinal_to_tuple_ok(ordinal) THEN Some(ordinal_to_tuple_u8(ordinal)) ELSE None,
   panicked |-> ~ordinal_to_tuple_ok(ordinal)]

\* the record of a call of tuple_to_ordinal((a, b)); origin is the ordinal the
\* pair was converted from, if it was
tuple_to_ordinal_call(a, b, origin) ==
  [op |-> "tuple_to_ordinal", args |-> <<a, b>>, origin |-> origin,
   ret |-> IF tuple_to_ordinal_ok(a, b) THEN Some(tuple_to_ordinal(a, b)) ELSE None,
   panicked |-> ~tuple_to_ordinal_ok(a, b)]

OrdinalToTuple(ordinal) ==
  /\ last.op = "new"
  /\ last' = ordinal_to_tuple_call(ordinal, None)
  /\ UNCHANGED <<layout, ownerVars, stateVars, zVars, overVars, drawVars, tableVars>>

TupleToOrdinal(a, b) ==
  /\ last.op = "new"
  /\ last' = tuple_to_ordinal_call(a, b, None)
  /\ UNCHANGED <<layout, ownerVars, stateVars, zVars, overVars, drawVars, tableVars>>

\* the pair that ordinal_to_tuple returned is converted back
TupleBack ==
  /\ last.op = "ordinal_to_tuple" /\ last.origin = None /\ ~last.panicked
  /\ last' = tuple_to_ordinal_call(last.ret[1][1], last.ret[1][2], Some(last.args[1]))
  /\ UNCHANGED <<layout, ownerVars, stateVars, zVars, overVars, drawVars, tableVars>>

\* the ordinal that tuple_to_ordinal returned is converted back
OrdinalBack ==
  /\ last.op = "tuple_to_ordinal" /\ last.origin = None /\ ~last.panicked
  /\ last' = ordinal_to_tuple_call(last.ret[1], Some(last.args))
  /\ UNCHANGED <<layout, ownerVars, stateVars, zVars, overVars, drawVars, tableVars>>

NextOrdinal ==
  \/ \E ordinal \in 0..U8_MAX : OrdinalToTuple(ordinal)
  \/ \E a \in 0..(MAX_PIPS + 1) : \E b \in 0..(MAX_PIPS + 1) : TupleToOrdinal(a, b)
  \/ TupleBack
  \/ OrdinalBack

SpecOrdinal == Init /\ [][NextOrdinal]_vars

\* the pairs in canonical form with pips up to MAX_PIPS
CanonicalPairs == {p \in (0..MAX_PIPS) \X (0..MAX_PIPS) : p[1] <= p[2]}

\* C30: ordinal and canonical pair are in bijection: an ordinal of the table
\* converted to its pair and back gives the ordinal; a pair (a, b) with
\* a <= b <= 21 gets an ordinal, and converted back gives (a, b); another such
\* pair gets another ordinal.
C30_Bijection ==
  /\ (last.op = "ordinal_to_tuple" /\ last.origin = None /\ last.args[1] < TUPLES_LEN)
       => ~last.panicked /\ last.ret[1] \in CanonicalPairs
  /\ (last.op = "tuple_to_ordinal" /\ last.origin # None)
       => ~last.panicked /\ last.ret = last.origin
  /\ (last.op = "tuple_to_ordinal" /\ last.origin = None /\ last.args \in CanonicalPairs)
       => /\ ~last.panicked /\ last.ret[1] < TUPLES_LEN
          /\ \A p \in CanonicalPairs \ {last.args} :
               tuple_to_ordinal(p[1], p[2]) # last.ret[1]
  /\ (last.op = "ordinal_to_tuple" /\ last.origin # None /\ last.origin[1] \in CanonicalPairs)
       => ~last.panicked /\ last.ret = last.origin

\* the last ordinal of the table has been converted to 21|21 and back
C30_Witness ==
  /\ last.op = "tuple_to_ordinal" /\ last.origin = Some(TUPLES_LEN - 1)
  /\ last.args = <<MAX_PIPS, MAX_PIPS>>
  /\ last.ret = Some(TUPLES_LEN - 1)

\* the pair 20|21 has been converted to its ordinal and back
C30_PairCase ==
  /\ last.op = "ordinal_to_tuple" /\ last.origin = Some(<<MAX_PIPS - 1, MAX_PIPS>>)
  /\ last.ret = last.origin

\* an ordinal past the table makes ordinal_to_tuple abort, and a pair that is
\* not in canonical form makes tuple_to_ordinal abort
C30_OutsideCase ==
  /\ last.panicked
  /\ \/ last.op = "ordinal_to_tuple" /\ last.args[1] = TUPLES_LEN
     \/ last.op = "tuple_to_ordinal" /\ last.args = <<1, 0>>

(***************************************************************************)
(* rules: a tile made from two pip values given in either order, directly, *)
(* by deserialization and by the text parser, and asked for its pair       *)
(***************************************************************************)
\* Tile::as_tuple on any tile: [ok, pair]
Tile_as_tuple(tile) ==
  IF ordinal_to_tuple_ok(tile) THEN [ok |-> TRUE, pair |-> ordinal_to_tuple_u8(tile)]
  ELSE [ok |-> FALSE]

\* impl From<(u8, u8)> for Tile: [ok, tile]; the assertions are those of
\* tuple_to_ordinal
Tile_from(a, b) ==
  IF tuple_to_ordinal_ok(a, b) THEN [ok |-> TRUE, tile |-> tuple_to_ordinal(a, b)]
  ELSE [ok |-> FALSE]

\* impl Deserialize for Tile
\* the visitor making the tile from the values as they come
Tile_deserialize_as_given(a, b) == Tile_from(a, b)

Tile_deserialize(a, b) == IF a < b THEN Tile_from(a, b) ELSE Tile_from(b, a)

\* the decimal digits of a pip value
number_text(value) ==
  IF value < 10 THEN <<digit(value)>> ELSE <<digit(value \div 10), digit(value % 10)>>

\* the tile the text parser makes of "a|b": [ok, tile]
Tile_parsed(a, b) ==
  LET r == parse(number_text(a) \o <<"|">> \o number_text(b))
  IN  IF r.ok THEN [ok |-> TRUE, tile |-> r.tree.tile] ELSE [ok |-> FALSE]

\* the record of a tile made by way from the values a, b and asked for its
\* pair: ret is the pair, panicked says that making the tile or asking it
\* aborted, refused that the parser returned an error
tile_call(way, a, b, made) ==
  [op |-> way, args |-> <<a, b>>,
   ret |-> IF made.ok /\ Tile_as_tuple(made.tile).ok
             THEN Some(Tile_as_tuple(made.tile).pair) ELSE None,
   panicked |-> IF way = "parse_tile" THEN FALSE
                ELSE ~made.ok \/ ~Tile_as_tuple(made.tile).ok]

\* the pip values a tile is made from: those up to MAX_PIPS and the one after
PipInputs == 0..(MAX_PIPS + 1)

TileFrom(a, b) ==
  /\ last.op = "new"
  /\ last' = tile_call("Tile::from", a, b, Tile_from(a, b))
  /\ UNCHANGED <<layout, ownerVars, stateVars, zVars, overVars, drawVars, tableVars>>

TileDeserialize(a, b) ==
  /\ last.op = "new"
  /\ last' = tile_call("Tile::deserialize", a, b, Tile_deserialize(a, b))
  /\ UNCHANGED <<layout, ownerVars, stateVars, zVars, overVars, drawVars, tableVars>>

TileParse(a, b) ==
  /\ last.op = "new"
  /\ last' = tile_call("parse_tile", a, b, Tile_parsed(a, b))
  /\ UNCHANGED <<layout, ownerVars, stateVars, zVars, overVars, drawVars, tableVars>>

NextTile ==
  \/ \E a \in PipInputs : \E b \in PipInputs : TileFrom(a, b)
  \/ \E a \in PipInputs : \E b \in PipInputs : TileDeserialize(a, b)
  \/ \E a \in PipInputs : \E b \in PipInputs : TileParse(a, b)

SpecTile == Init /\ [][NextTile]_vars

\* the ways a tile is made
TileWays == {"Tile::from", "Tile::deserialize", "parse_tile"}

\* the pair a, b smaller value first
Canonical(a, b) == IF a <= b THEN <<a, b>> ELSE <<b, a>>

\* the values of the last call are pip values of the library
SupportedPips == last.args[1] <= MAX_PIPS /\ last.args[2] <= MAX_PIPS

\* C31 as stated: a tile made from two pip values in either order, directly
\* from the pair, by deserialization or by the text parser, reports the pair
\* smaller value first.
C31_CanonicalWhicheverOrder ==
  (last.op \in TileWays /\ SupportedPips)
    => last.ret = Some(Canonical(last.args[1], last.args[2]))

\* C31: a tile made by deserialization or by the text parser from two pip
\* values in either order, or directly from a pair given smaller value
\* first, reports the pair smaller value first; a pair given larger value
\* first makes the direct construction abort.
C31_CanonicalPair ==
  (last.op \in TileWays /\ SupportedPips)
    => IF last.op = "Tile::from" /\ last.args[1] > last.args[2]
         THEN last.panicked /\ last.ret = None
         ELSE ~last.panicked /\ last.ret = Some(Canonical(last.args[1], last.args[2]))

\* a tile has been deserialized from the values 21, 3 and reports 3|21
C31_Witness ==
  /\ last.op = "Tile::deserialize" /\ last.args = <<MAX_PIPS, 3>>
  /\ last.ret = Some(<<3, MAX_PIPS>>)

\* the text "21|3" has been parsed and its tile reports 3|21
C31_ParserCase ==
  /\ last.op = "parse_tile" /\ last.args = <<MAX_PIPS, 3>>
  /\ last.ret = Some(<<3, MAX_PIPS>>)

\* Tile::from((1, 0)) has aborted
C31_FromCase ==
  last.op = "Tile::from" /\ last.args = <<1, 0>> /\ last.panicked

\* a tile deserialized from the values 0, 22 has aborted when asked for its
\* pair
C31_UnsupportedCase ==
  last.op = "Tile::deserialize" /\ last.args = <<0, MAX_PIPS + 1>> /\ last.panicked

(***************************************************************************)
(* The static Z_VALUE_TABLE: a LazyLock<ZTable> that threads use for the   *)
(* first time concurrently. Each thread forces the lock before its first   *)
(* lookup: it finds the table built, builds it, or waits for the thread    *)
(* that is building it.                                                    *)
(***************************************************************************)
\* the threads that use the fingerprint
MaxThreads == 2

Threads == 1..MaxThreads

\* ZTable::new: the table drawn from ChaCha8Rng::seed_from_u64(1), as the
\* constants the fingerprint operations look up
ZTable_new ==
  [tile_hashes |-> [tile \in all_tiles(SetId) |-> tile_value(tile)],
   end_hashes |-> [which \in Values |-> [count \in 0..MaxCount |-> end_value(which, count)]],
   turn_hash |-> turn_value]

\* LazyLock::force, what a thread does on the state of the lock it finds
\* a lock that lets a thread build while another thread is building
force_unsynchronized(state) == IF state = "complete" THEN "ready" ELSE "build"

force(state) ==
  IF state = "complete" THEN "ready"
  ELSE IF state = "incomplete" THEN "build"
  ELSE "wait"

\* the lookups of the fingerprint operations: tile_value (add_tile,
\* from_state), end_value (change_end_count, from_state), turn_value (turn,
\* from_state)
Lookups == {"tile_value", "end_value", "turn_value"}

\* what a lookup reads in a table
lookup(t, which) ==
  IF which = "tile_value" THEN t.tile_hashes[0]
  ELSE IF which = "end_value" THEN t.end_hashes[0][1]
  ELSE t.turn_hash

InitTable ==
  /\ once = "incomplete" /\ table = None /\ builds = 0
  /\ pc = [thread \in Threads |-> "start"]
  /\ seen = [thread \in Threads |-> {}]
  /\ layout = Layout_new(SetId)
  /\ last = NoCall
  /\ incremental = START
  /\ turn = 0
  /\ fingerprint = START
  /\ whose_turn = 0
  /\ consecutive_passes = 0
  /\ boneyard = [tiles |-> <<>>, next |-> 0]
  /\ ZIdle
  /\ game_is_over = FALSE /\ winner = None
  /\ drawn = <<>> /\ dealt = <<>>

\* a thread uses the fingerprint for the first time: it forces the lock
FirstUse(thread) ==
  /\ pc[thread] = "start"
  /\ pc' = [pc EXCEPT ![thread] = force(once)]
  /\ once' = IF force(once) = "build" THEN "running" ELSE once
  /\ UNCHANGED <<table, builds, seen, layout, last, ownerVars, stateVars, zVars, overVars, drawVars>>

\* the thread that found the lock incomplete runs ZTable::new and stores the
\* table
Build(thread) ==
  /\ pc[thread] = "build"
  /\ table' = Some(ZTable_new)
  /\ builds' = builds + 1
  /\ once' = "complete"
  /\ pc' = [pc EXCEPT ![thread] = "ready"]
  /\ UNCHANGED <<seen, layout, last, ownerVars, stateVars, zVars, overVars, drawVars>>

\* a thread that found the lock running goes on when the table is stored
Wake(thread) ==
  /\ pc[thread] = "wait" /\ once = "complete"
  /\ pc' = [pc EXCEPT ![thread] = "ready"]
  /\ UNCHANGED <<once, table, builds, seen, layout, last, ownerVars, stateVars, zVars, overVars, drawVars>>

\* a fingerprint operation of the thread looks a constant up in the table
Lookup(thread, which) ==
  /\ pc[thread] = "ready"
  /\ seen' = [seen EXCEPT ![thread] = @ \cup {[which |-> which, value |-> lookup(table[1], which)]}]
  /\ UNCHANGED <<once, table, builds, pc, layout, last, ownerVars, stateVars, zVars, overVars, drawVars>>

NextTable ==
  \/ \E thread \in Threads : FirstUse(thread)
  \/ \E thread \in Threads : Build(thread)
  \/ \E thread \in Threads : Wake(thread)
  \/ \E thread \in Threads : \E which \in Lookups : Lookup(thread, which)

SpecTable == InitTable /\ [][NextTable]_vars

\* C32: when several threads use the fingerprint for the first time
\* concurrently, the table is built once, a thread looks constants up only
\* in the built table, every thread reads the same constants, and no step
\* other than the one build stores a table.
C32_BuiltOnce ==
  /\ builds <= 1
  /\ (builds = 1) = (table # None)
  /\ \A thread \in Threads :
       /\ pc[thread] = "ready" => table = Some(ZTable_new)
       /\ \A read \in seen[thread] : read.value = lookup(ZTable_new, read.which)
  /\ \A t1 \in Threads : \A t2 \in Threads :
       \A r1 \in seen[t1] : \A r2 \in seen[t2] :
         r1.which = r2.which => r1.value = r2.value

\* the table never changes once it is stored, whatever the threads do
C32_Immutable == [][table # None => table' = table]_vars

\* every thread has looked up every kind of constant, one build was made
C32_Witness ==
  /\ builds = 1
  /\ \A thread \in Threads : Cardinality(seen[thread]) = Cardinality(Lookups)

\* a thread waits while another thread is building the table
C32_WaitCase ==
  \E t1 \in Threads : \E t2 \in Threads :
    pc[t1] = "wait" /\ pc[t2] = "build" /\ table = None

(***************************************************************************)
(* DominoesState with the end of the game: play_tile, pass and draw_tile   *)
(* as above, and mark_game_over. None of the operations looks at           *)
(* game_is_over, so they are called before and after the game is marked    *)
(* over, and the game is marked over any number of times.                  *)
(***************************************************************************)
\* the winners a caller may name: nobody, or one of two players
WinnerInputs == {None, Some(0), Some(1)}

\* state.mark_game_over(winner)
MarkGameOver(new_winner) ==
  /\ ~last.panicked
  /\ game_is_over' = TRUE
  /\ winner' = new_winner
  /\ last' = [NoCall EXCEPT !.op = "mark_game_over", !.args = <<new_winner>>]
  /\ UNCHANGED <<layout, stateVars, ownerVars, zVars, drawVars, tableVars>>

NextOver ==
  \/ \E tile \in TilesInHand(layout) : \E end \in EndInputs : PlayTile(tile, end)
  \/ Pass
  \/ DrawTile
  \/ \E w \in WinnerInputs : MarkGameOver(w)

SpecOver == InitState /\ [][NextOver]_vars

\* C33: a step of draw_tile or pass leaves the fingerprint and the layout
\* as they were; a step of pass also leaves the boneyard, whose_turn and the
\* game-over flag as they were.
C33_DrawAndPassFrame ==
  [][/\ last'.op \in {"draw_tile", "pass"} =>
          fingerprint' = fingerprint /\ layout' = layout
     /\ last'.op = "pass" =>
          boneyard' = boneyard /\ whose_turn' = whose_turn /\ game_is_over' = game_is_over]_vars

\* a pass was made after tiles were played and drawn and the game marked over
C33_Witness ==
  /\ last.op = "pass" /\ ~last.panicked
  /\ game_is_over /\ boneyard.next > 0 /\ ~is_empty(layout)
  /\ fingerprint # START

\* a tile was drawn from a boneyard that still had one, on a layout with tiles
C33_DrawCase ==
  /\ last.op = "draw_tile" /\ last.ret # None
  /\ ~is_empty(layout) /\ fingerprint # START

(***************************************************************************)
(* A layout that is grown by attach, or persisted and loaded back, and     *)
(* then written as text                                                    *)
(***************************************************************************)
\* layout.to_string(); the call keeps how the layout came about: the
\* operation that made it last
Show ==
  /\ last.op \in {"new", "attach", "deserialize"} /\ ~last.panicked
  /\ \E r \in {fmt(layout)} :
       last' = [op |-> "to_string", args |-> <<>>, origin |-> last.op,
                ret |-> IF r.panicked THEN None ELSE Some(r.text),
                panicked |-> r.panicked]
  /\ UNCHANGED <<layout, ownerVars, stateVars, zVars, overVars, drawVars, tableVars>>

NextShow ==
  \/ /\ last.op \in {"new", "attach"}
     /\ \E tile \in all_tiles(SetId) : \E parent_index \in ParentInputs(layout) :
          Attach(tile, parent_index)
  \/ /\ last.op \in {"new", "attach"} /\ ~last.panicked
     /\ \E data \in PersistedInputs(layout) : Reload(data)
  \/ Show

SpecShow == Init /\ [][NextShow]_vars

\* the layout has a root whose tile is not a double
NonDoubleRoot(l) == l.nodes # <<>> /\ ~is_double(l.nodes[1].tile)

\* C34: to_string aborts when the layout has a root that is not a double,
\* and does not abort for a layout built by attach calls.
C34_ToTextAborts ==
  last.op = "to_string" =>
    /\ NonDoubleRoot(layout) => last.panicked
    /\ last.origin \in {"new", "attach"} => ~last.panicked

\* a loaded layout whose root is not a double was written, and the call
\* aborted
C34_Witness ==
  /\ last.op = "to_string" /\ last.origin = "deserialize"
  /\ NonDoubleRoot(layout) /\ last.panicked

\* a layout of a root with two children, built by attach, was written
C34_AttachCase ==
  /\ last.op = "to_string" /\ last.origin = "attach" /\ ~last.panicked
  /\ Len(layout.nodes) >= 3 /\ Len(layout.nodes[1].children) = 2

\* a loaded layout in which a node is its own child was written: the call
\* does not return
C34_EndlessCase ==
  /\ last.op = "to_string" /\ last.origin = "deserialize" /\ last.panicked
  /\ ~NonDoubleRoot(layout) /\ endless(layout)

\* a loaded layout whose root is a double was written
C34_LoadedDoubleCase ==
  /\ last.op = "to_string" /\ last.origin = "deserialize" /\ ~last.panicked
  /\ Len(layout.nodes) >= 2

(***************************************************************************)
(* The shape of a layout that attach calls build                           *)
(***************************************************************************)
\* the indices of the nodes of l
NodeIndices(l) == 0..(Len(l.nodes) - 1)

\* the child list of every node holds the nodes that name it as parent, each
\* once, lowest index first: nodes are appended, so that is the order in
\* which they were attached
ChildrenInAttachOrder(l) ==
  \A i \in NodeIndices(l) :
    LET children == l.nodes[i + 1].children
    IN  /\ {children[k] : k \in 1..Len(children)}
             = {j \in NodeIndices(l) : l.nodes[j + 1].parent = Some(i)}
        /\ \A k \in 1..(Len(children) - 1) : children[k] < children[k + 1]

\* node 0 is a double and the only node without a parent, and every other
\* node's parent has a smaller index than the node
RootedAtZero(l) ==
  /\ l.nodes # <<>> => is_double(l.nodes[1].tile)
  /\ \A i \in NodeIndices(l) : (l.nodes[i + 1].parent = None) = (i = 0)
  /\ \A i \in NodeIndices(l) : i > 0 => l.nodes[i + 1].parent[1] < i

\* this step is a successful attach that appends one node and leaves the
\* tile and the parent of every node that was there as they were
AppendsOne ==
  /\ Len(layout'.nodes) = Len(layout.nodes) + 1
  /\ \A i \in 1..Len(layout.nodes) :
       /\ layout'.nodes[i].tile = layout.nodes[i].tile
       /\ layout'.nodes[i].parent = layout.nodes[i].parent

\* C35: a layout grows only by appending: no step removes a node, every
\* successful attach appends exactly one node and leaves the tile and parent
\* of the existing nodes alone; after successful calls node 0 is a double and
\* the only node without a parent, every other node's parent index is
\* smaller than its own, and every child list holds the node's children each
\* once in the order they were attached.
C35_GrowsByAppending ==
  /\ [](~last.panicked => RootedAtZero(layout) /\ ChildrenInAttachOrder(layout))
  /\ [][/\ Len(layout'.nodes) >= Len(layout.nodes)
        /\ (last'.op = "attach" /\ ~last'.panicked) => AppendsOne]_vars

\* four nodes were attached: the root has two children and a child has one
C35_Witness ==
  /\ AttachSucceeded
  /\ Len(layout.nodes) = 4
  /\ Len(layout.nodes[1].children) = 2
  /\ \E i \in 1..3 : Len(layout.nodes[i + 1].children) = 1
  /\ RootedAtZero(layout) /\ ChildrenInAttachOrder(layout)

\* the children of the root were attached with another node between them
C35_OrderCase ==
  /\ AttachSucceeded
  /\ layout.nodes[1].children = <<1, 3>>

(***************************************************************************)
(* A layout of the largest set a Configuration accepts, the double-21 set  *)
(* (Configuration::new asserts set_id <= 21), grown by attach; its owner   *)
(* updates the fingerprint after every attach. The tiles are looked up in  *)
(* the whole of TUPLES and DOUBLES.                                        *)
(***************************************************************************)
\* rules::DOUBLES, the ordinals from (5, 5) to (21, 21)
DOUBLES_FROM_5 ==
  <<20, 27, 35, 44, 54, 65, 77, 90, 104, 119, 135, 152, 170, 189, 209, 230, 252>>

\* is_double_ordinal on any u8 ordinal: the search in DOUBLES with all its
\* entries
is_double_u8(tile) ==
  is_double_ordinal(tile) \/ \E i \in 1..Len(DOUBLES_FROM_5) : DOUBLES_FROM_5[i] = tile

\* Tile::can_attach for tiles given by their pairs
can_attach_pairs(p, t) == t[1] = p[1] \/ t[1] = p[2] \/ t[2] = p[1] \/ t[2] = p[2]

\* Layout::attach, the Some(parent_index) arm after its two assertions, for a
\* tile with the pair t and a parent tile with the pair p
attach_to_parent_u8(l, tile, parent_index, t, p) ==
  LET a == t[1]
      b == t[2]
      matched_value == IF p[1] = a \/ p[2] = a THEN a ELSE b
      open_value == IF p[1] = a \/ p[2] = a THEN b ELSE a
      tile_index == Len(l.nodes)
      open_count_ == IF is_double_u8(tile) THEN 2 ELSE 1
      pushed == Append(l.nodes, [tile |-> tile, parent |-> Some(parent_index), children |-> <<>>])
      opened == IF open_count_ = 2
                  THEN open_insert(open_insert(l.open, tile_index, open_value), tile_index, open_value)
                  ELSE open_insert(l.open, tile_index, open_value)
      counted == [l.end_counts EXCEPT ![open_value + 1] = @ + open_count_]
      removed == remove_from_open(opened, parent_index, matched_value)
  IN  IF removed.panicked
        THEN [layout |-> [nodes |-> pushed, open |-> opened, end_counts |-> counted],
              ret |-> None, panicked |-> TRUE]
        ELSE [layout |-> [nodes |-> [pushed EXCEPT ![parent_index + 1].children = Append(@, tile_index)],
                          open |-> removed.open,
                          end_counts |-> [counted EXCEPT ![matched_value + 1] = @ - 1]],
              ret |-> Some(<<open_value, open_count_>>), panicked |-> FALSE]

\* Layout::attach for a tile of any set: [layout, ret, panicked]
attach_u8(l, tile, parent_index) ==
  LET t == ordinal_to_tuple_u8(tile)
  IN  IF parent_index # None
        THEN IF /\ parent_index[1] < Len(l.nodes) /\ parent_index[1] \in DOMAIN l.open
                /\ can_attach_pairs(ordinal_to_tuple_u8(l.nodes[parent_index[1] + 1].tile), t)
               THEN attach_to_parent_u8(l, tile, parent_index[1], t,
                                        ordinal_to_tuple_u8(l.nodes[parent_index[1] + 1].tile))
               ELSE [layout |-> l, ret |-> None, panicked |-> TRUE]
        ELSE IF is_double_u8(tile) /\ l.nodes = <<>> /\ DOMAIN l.open = {}
               THEN [layout |-> [nodes |-> Append(l.nodes, [tile |-> tile, parent |-> None, children |-> <<>>]),
                                 open |-> open_insert(open_insert(l.open, 0, t[1]), 0, t[1]),
                                 end_counts |-> [l.end_counts EXCEPT ![t[1] + 1] = @ + 2]],
                     ret |-> Some(<<t[1], 2>>), panicked |-> FALSE]
               ELSE [layout |-> l, ret |-> None, panicked |-> TRUE]

\* the assertions of the owner's change_end_count calls for the totals that
\* differ between two layouts
owner_update_ok(before, after) ==
  \A value \in 0..(Len(after.end_counts) - 1) :
    open_count(before, value) # open_count(after, value)
      => change_end_count_ok(value, open_count(before, value), open_count(after, value))

\* the index of the node that holds the tile (a, b)
node_of(l, a, b) ==
  CHOOSE i \in 0..(Len(l.nodes) - 1) : l.nodes[i + 1].tile = tuple_to_ordinal(a, b)

\* the tile (a, b) is on the layout
placed(l, a, b) ==
  \E i \in 1..Len(l.nodes) : l.nodes[i].tile = tuple_to_ordinal(a, b)

\* the line of play that is explored: 1|1 first; then for k = 1, 2, ... the
\* tile 0|k on the double k|k, the tile k|k+1 on the double k|k, and the
\* double k+1|k+1 on the tile k|k+1. The entry at position i (from 0) is the
\* tile and the tile of its parent.
line_of_play(i) ==
  IF i = 0 THEN [tile |-> <<1, 1>>, on |-> None]
  ELSE LET k == 1 + (i - 1) \div 3
           step == (i - 1) % 3
       IN  IF step = 0 THEN [tile |-> <<0, k>>, on |-> Some(<<k, k>>)]
           ELSE IF step = 1 THEN [tile |-> <<k, k + 1>>, on |-> Some(<<k, k>>)]
           ELSE [tile |-> <<k + 1, k + 1>>, on |-> Some(<<k, k + 1>>)]

\* the last position of the line of play: the tile 0|21 on the double 21|21
LineEnd == 3 * (MAX_PIPS - 1) + 1

\* the calls the owner may make next: the next tile of the line of play on
\* its parent, or the double 0|0, once, on any tile 0|k that is on the layout
PlayInputs(l) ==
  LET at == Len(l.nodes) - (IF placed(l, 0, 0) THEN 1 ELSE 0)
      next == line_of_play(at)
  IN  (IF at > LineEnd THEN {}
       ELSE {[tile |-> tuple_to_ordinal(next.tile[1], next.tile[2]),
              parent_index |-> IF next.on = None THEN None
                               ELSE Some(node_of(l, next.on[1][1], next.on[1][2]))]})
      \cup (IF placed(l, 0, 0) THEN {}
            ELSE {[tile |-> tuple_to_ordinal(0, 0), parent_index |-> Some(node_of(l, 0, k))] :
                    k \in {j \in 1..MAX_PIPS : placed(l, 0, j)}})

InitLargest ==
  /\ layout = Layout_new(MAX_PIPS)
  /\ last = NoCall
  /\ incremental = START
  /\ turn = 0
  /\ fingerprint = START
  /\ whose_turn = 0
  /\ consecutive_passes = 0
  /\ boneyard = [tiles |-> <<>>, next |-> 0]
  /\ ZIdle
  /\ OthersIdle

\* the owner calls layout.attach(tile, parent_index) and then add_tile and
\* change_end_count for every total that changed; the call recorded has
\* panicked if attach or one of the change_end_count calls did
AttachLargest(tile, parent_index) ==
  /\ ~last.panicked
  /\ \E r \in {attach_u8(layout, tile, parent_index)} :
       /\ layout' = r.layout
       /\ last' = [op |-> "attach", args |-> <<tile, parent_index>>, ret |-> r.ret,
                   panicked |-> r.panicked \/ ~owner_update_ok(layout, r.layout)]
       /\ incremental' = IF r.panicked \/ ~owner_update_ok(layout, r.layout) THEN incremental
                         ELSE owner_update(incremental, tile, layout, r.layout)
  /\ UNCHANGED <<turn, stateVars, zVars, overVars, drawVars, tableVars>>

NextLargest ==
  \E call \in PlayInputs(layout) : AttachLargest(call.tile, call.parent_index)

SpecLargest == InitLargest /\ [][NextLargest]_vars

\* the tiles of the layout are distinct
DistinctTiles(l) ==
  \A i \in 1..Len(l.nodes) : \A j \in 1..Len(l.nodes) :
    l.nodes[i].tile = l.nodes[j].tile => i = j

\* C36: on every layout reached by attaching distinct tiles of a double-N
\* set with N <= 21 every total of open ends is at most 21, so that neither
\* from_state nor the owner's change_end_count calls fail the bounds check
\* of the table.
C36_TotalsWithinTable ==
  DistinctTiles(layout) =>
    /\ \A value \in 0..MAX_PIPS : open_count(layout, value) <= MAX_PIPS
    /\ from_state_ok(layout, turn)
    /\ ~last.panicked

\* all tiles 0|1 .. 0|21 are on the layout with their end 0 open: the total
\* of the value 0 is 21, the last count the table holds
C36_FullRowCase ==
  /\ ~last.panicked /\ ~placed(layout, 0, 0)
  /\ open_count(layout, 0) = MAX_PIPS
  /\ from_state_ok(layout, turn)

\* the double 0|0 went onto one of them: attach returned, the total of the
\* value 0 is 22, and the owner's change_end_count(0, 21, 22) aborted
C36_BeyondTableCase ==
  /\ last.op = "attach" /\ last.ret # None /\ last.panicked
  /\ DistinctTiles(layout)
  /\ open_count(layout, 0) = MAX_PIPS + 1
  /\ ~from_state_ok(layout, turn)

(***************************************************************************)
(* A DominoesState of the double-21 set: the same line of play made with   *)
(* play_tile, which picks the parent among the nodes with the end open.    *)
(***************************************************************************)
\* DominoesState::can_play_tile for a tile of any set, after its assertion
can_play_tile_u8(l, tile, end) ==
  LET t == ordinal_to_tuple_u8(tile)
  IN  IF ~is_empty(l)
        THEN IF end # None
               THEN (t[1] = end[1] \/ t[2] = end[1]) /\ l.end_counts[end[1] + 1] > 0
               ELSE l.end_counts[t[1] + 1] > 0 \/ l.end_counts[t[2] + 1] > 0
        ELSE is_double_u8(tile)

\* DominoesState::play_tile for a tile of any set, the Some(matched_end) arm
\* given the node found; every change_end_count call makes its assertions
play_on_end_u8(l, z, tile, matched_end, found) ==
  IF found = None
    THEN [layout |-> l, fingerprint |-> z, panicked |-> TRUE]
    ELSE LET r == attach_u8(l, tile, found)
         IN  IF r.panicked
               THEN [layout |-> r.layout, fingerprint |-> z, panicked |-> TRUE]
               ELSE LET new_end == r.ret[1][1]
                        new_end_change == r.ret[1][2]
                        z1 == add_tile(z, tile)
                        matched_count == open_count(r.layout, matched_end)
                        new_end_count == open_count(r.layout, new_end)
                    IN  IF ~change_end_count_ok(matched_end, matched_count + 1, matched_count)
                          THEN [layout |-> r.layout, fingerprint |-> z1, panicked |-> TRUE]
                        ELSE IF \/ new_end_count < new_end_change
                                \/ ~change_end_count_ok(new_end, new_end_count - new_end_change,
                                                        new_end_count)
                          THEN [layout |-> r.layout,
                                fingerprint |-> change_end_count(z1, matched_end, matched_count + 1,
                                                                 matched_count),
                                panicked |-> TRUE]
                        ELSE [layout |-> r.layout,
                              fingerprint |->
                                change_end_count(
                                  change_end_count(z1, matched_end, matched_count + 1, matched_count),
                                  new_end, new_end_count - new_end_change, new_end_count),
                              panicked |-> FALSE]

\* DominoesState::play_tile for a tile of any set, the None arm
play_first_u8(l, z, tile) ==
  IF ~is_empty(l)
    THEN [layout |-> l, fingerprint |-> z, panicked |-> TRUE]
    ELSE LET r == attach_u8(l, tile, None)
         IN  IF r.panicked
               THEN [layout |-> r.layout, fingerprint |-> z, panicked |-> TRUE]
               ELSE IF open_count(r.layout, r.ret[1][1]) = r.ret[1][2]
                 THEN [layout |-> r.layout,
                       fingerprint |-> change_end_count(add_tile(z, tile), r.ret[1][1], 0, r.ret[1][2]),
                       panicked |-> FALSE]
                 ELSE [layout |-> r.layout, fingerprint |-> add_tile(z, tile), panicked |-> TRUE]

\* DominoesState::play_tile for a tile of any set, up to
\* update_consecutive_passes: [layout, fingerprint, panicked]
play_tile_u8(l, z, tile, end, found) ==
  IF ~(can_play_tile_ok(l, end) /\ can_play_tile_u8(l, tile, end))
    THEN [layout |-> l, fingerprint |-> z, panicked |-> TRUE]
    ELSE IF end # None
           THEN play_on_end_u8(l, z, tile, end[1], found)
           ELSE play_first_u8(l, z, tile)

\* the plays made next: the tiles of PlayInputs, each on the end whose value
\* it shares with the tile it goes onto
PlayEnds(l) ==
  {[tile |-> call.tile,
    end |-> IF call.parent_index = None THEN None
            ELSE LET t == ordinal_to_tuple_u8(call.tile)
                     p == ordinal_to_tuple_u8(l.nodes[call.parent_index[1] + 1].tile)
                 IN  Some(IF t[1] = p[1] \/ t[1] = p[2] THEN t[1] ELSE t[2])] :
     call \in PlayInputs(l)}

\* state.play_tile(tile, end); the call recorded keeps what can_play_tile
\* said before it and the layout it was made on
PlayLargest(tile, end) ==
  /\ ~last.panicked
  /\ \E found \in (IF end = None THEN {None} ELSE find_open(layout, end[1])) :
       \E r \in {play_tile_u8(layout, fingerprint, tile, end, found)} :
         /\ layout' = r.layout
         /\ fingerprint' = r.fingerprint
         /\ consecutive_passes' = IF r.panicked THEN consecutive_passes
                                  ELSE update_consecutive_passes(consecutive_passes, FALSE)
         /\ last' = [op |-> "play_tile", args |-> <<tile, end, found>>, ret |-> None,
                     could |-> can_play_tile_ok(layout, end) /\ can_play_tile_u8(layout, tile, end),
                     before |-> layout,
                     panicked |-> r.panicked]
  /\ UNCHANGED <<whose_turn, boneyard, ownerVars, zVars, overVars, drawVars, tableVars>>

NextLargestState ==
  \E play \in PlayEnds(layout) : PlayLargest(play.tile, play.end)

SpecLargestState == InitLargest /\ [][NextLargestState]_vars

\* the tile of the last play was not on the layout the play was made on
NewTilePlayed ==
  /\ last.op = "play_tile" /\ last.args[2] # None /\ last.could
  /\ \A i \in 1..Len(last.before.nodes) : last.before.nodes[i].tile # last.args[1]

\* C37: for a tile not on the layout, whenever can_play_tile(tile, Some(end))
\* is true, play_tile(tile, Some(end)) does not abort and appends exactly one
\* node, and the totals of open ends after it are the same whichever node
\* with an open end of that value is taken as parent.
C37_PlayCompletes ==
  NewTilePlayed =>
    /\ ~last.panicked
    /\ Len(layout.nodes) = Len(last.before.nodes) + 1
    /\ \A found \in find_open(last.before, last.args[2][1]) :
         attach_u8(last.before, last.args[1], found).layout.end_counts = layout.end_counts

\* the double 0|0 was played on the end 0 when 21 ends of 0 were open, one
\* of several nodes was taken as parent, and the call aborted after attach
C37_BeyondTableCase ==
  /\ NewTilePlayed /\ last.panicked
  /\ open_count(last.before, 0) = MAX_PIPS
  /\ Cardinality(find_open(last.before, 0)) > 1
  /\ Len(layout.nodes) = Len(last.before.nodes) + 1
  /\ open_count(layout, 0) = MAX_PIPS + 1

\* C37 in the double-SetId set of SpecState, as a property of every step:
\* there every play of a new tile that can_play_tile allows completes,
\* appends one node and gives the same totals whichever parent is found
C37_SmallSetPlayCompletes ==
  [][\A tile \in all_tiles(SetId) : \A end \in Values :
       (/\ last'.op = "play_tile" /\ last'.args[1] = tile /\ last'.args[2] = Some(end)
        /\ can_play_tile_ok(layout, Some(end)) /\ can_play_tile(layout, tile, Some(end))
        /\ \A i \in 1..Len(layout.nodes) : layout.nodes[i].tile # tile)
       => /\ ~last'.panicked
          /\ Len(layout'.nodes) = Len(layout.nodes) + 1
          /\ \A found \in find_open(layout, end) :
               attach(layout, tile, found).layout.end_counts = layout'.end_counts]_vars

\* the double 0|0 was played on the end 0 when 20 ends of 0 were open: the
\* total after attach is 21, and the call aborted all the same
C37_WithinTableCase ==
  /\ NewTilePlayed /\ last.panicked
  /\ open_count(last.before, 0) = MAX_PIPS - 1
  /\ open_count(layout, 0) = MAX_PIPS

(***************************************************************************)
(* Persisted forms that no serialize call wrote: indices past the end of   *)
(* the node list, pip values above set_id, links that disagree             *)
(***************************************************************************)
\* a persisted form in which node i names another parent
reparented(data, i, parent) ==
  [data EXCEPT !.nodes = [@ EXCEPT ![i + 1] = [@ EXCEPT !.parent = parent]]]

\* a persisted form in which node i lists one more child
with_child(data, i, child) ==
  [data EXCEPT !.nodes = [@ EXCEPT ![i + 1] = [@ EXCEPT !.children = Append(@, child)]]]

\* the persisted forms that are loaded: what serialize wrote; that form with
\* the newest node naming any node, or the index past the end, as its
\* parent; with the root listing any node, or the index past the end, as one
\* more child; with the tile of the newest node replaced by a tile of the
\* next larger set that has a pip value above set_id
UntrustedInputs(l) ==
  IF l.nodes = <<>> THEN {serialize(l)}
  ELSE {serialize(l)}
       \cup {reparented(serialize(l), Len(l.nodes) - 1, Some(parent)) : parent \in 0..Len(l.nodes)}
       \cup {with_child(serialize(l), 0, child) : child \in 0..Len(l.nodes)}
       \cup {retiled(serialize(l), Len(l.nodes) - 1, tile) :
               tile \in all_tiles(SetId + 1) \ all_tiles(SetId)}

NextUntrusted ==
  \/ /\ last.op \in {"new", "attach"}
     /\ \E tile \in all_tiles(SetId) : \E parent_index \in ParentInputs(layout) :
          Attach(tile, parent_index)
  \/ DeserializeCall /\ \E data \in UntrustedInputs(layout) : Deserialize(data)

SpecUntrusted == Init /\ [][NextUntrusted]_vars

\* C38: deserializing any persisted node list ends with a layout or with an
\* error result and never aborts, also when parent or child indices point
\* past the end of the list, pip values exceed set_id, or the parent and
\* child links disagree.
C38_LoadNeverAborts ==
  last.op = "deserialize" => ~last.panicked

\* the node list of the persisted form that was loaded
LoadedNodes == last.args[1].nodes

\* a form whose newest node names the index past the end as its parent was
\* loaded, and the load aborted
C38_ParentPastEndCase ==
  /\ last.op = "deserialize" /\ last.panicked
  /\ Len(LoadedNodes) >= 2
  /\ LoadedNodes[Len(LoadedNodes)].parent = Some(Len(LoadedNodes))
  /\ reparented(last.args[1], Len(LoadedNodes) - 1, layout.nodes[Len(LoadedNodes)].parent)
       = serialize(layout)

\* a form whose root lists the index past the end as a child was loaded, and
\* the load aborted
C38_ChildPastEndCase ==
  /\ last.op = "deserialize" /\ last.panicked
  /\ LoadedNodes # <<>>
  /\ LoadedNodes[1].children = Append(layout.nodes[1].children, Len(LoadedNodes))

\* a form with all indices in the list and a tile with a pip value above
\* set_id was loaded, and the load aborted
C38_PipAboveCase ==
  /\ last.op = "deserialize" /\ last.panicked
  /\ Len(LoadedNodes) >= 2
  /\ as_tuple(LoadedNodes[Len(LoadedNodes)].tile)[2] > last.args[1].set_id
  /\ retiled(last.args[1], Len(LoadedNodes) - 1, layout.nodes[Len(LoadedNodes)].tile)
       = serialize(layout)

\* a form in which a node names a parent that does not list it was loaded,
\* and the load returned a layout
C38_DisagreeCase ==
  /\ last.op = "deserialize" /\ last.ret # None /\ ~last.panicked
  /\ \E i \in 2..Len(LoadedNodes) :
       LET parent == LoadedNodes[i].parent[1]
       IN  /\ parent < Len(LoadedNodes)
           /\ \A k \in 1..Len(LoadedNodes[parent + 1].children) :
                LoadedNodes[parent + 1].children[k] # i - 1

\* a form with more than two children at the root was loaded, and the load
\* returned an error
C38_ErrorCase ==
  /\ last.op = "deserialize" /\ last.ret = None /\ ~last.panicked
  /\ Len(LoadedNodes[1].children) = 3

(***************************************************************************)
(* A Boneyard made with some tiles, on which draw, peek, count and shuffle *)
(* are called in any order; the caller keeps the tiles it gave and the     *)
(* tiles draw returned.                                                    *)
(***************************************************************************)
\* the most tiles a boneyard is made with
MaxTiles == 3

\* Boneyard::with
Boneyard_with(tiles) == [tiles |-> tiles, next |-> 0]

\* Boneyard::count
count(by) == Len(by.tiles) - by.next

\* Boneyard::peek
peek(by) == IF by.next < Len(by.tiles) THEN Some(by.tiles[by.next + 1]) ELSE None

\* the rearrangements of a sequence
Rearranged(s) ==
  {[i \in 1..Len(s) |-> s[f[i]]] :
     f \in {g \in [1..Len(s) -> 1..Len(s)] : \A i \in 1..Len(s) : \A j \in 1..Len(s) :
                                               g[i] = g[j] => i = j}}

\* Boneyard::shuffle: the outcomes of self.tiles[self.next..].shuffle(&mut rng())
\* a shuffle of all the tiles, those already drawn included
shuffle_all(by) == {[by EXCEPT !.tiles = tiles] : tiles \in Rearranged(by.tiles)}

shuffle(by) ==
  {[by EXCEPT !.tiles = SubSeq(by.tiles, 1, by.next) \o rest] :
     rest \in Rearranged(SubSeq(by.tiles, by.next + 1, Len(by.tiles)))}

\* the tile vectors a boneyard is made with: up to MaxTiles tiles, a tile
\* more than once included
TileInputs == UNION {[1..n -> 0..(MaxTiles - 1)] : n \in 0..MaxTiles}

InitBoneyard ==
  /\ dealt \in TileInputs
  /\ boneyard = Boneyard_with(dealt)
  /\ drawn = <<>>
  /\ last = NoCall
  /\ layout = Layout_new(SetId)
  /\ incremental = START
  /\ turn = 0
  /\ fingerprint = START
  /\ whose_turn = 0
  /\ consecutive_passes = 0
  /\ ZIdle
  /\ game_is_over = FALSE /\ winner = None
  /\ once = "incomplete" /\ table = None /\ builds = 0
  /\ pc = <<>> /\ seen = <<>>

\* boneyard.draw(); the call recorded keeps what count() was before it
Draw ==
  /\ \E r \in {draw(boneyard)} :
       /\ boneyard' = r.boneyard
       /\ drawn' = IF r.ret # None THEN Append(drawn, r.ret[1]) ELSE drawn
       /\ last' = [op |-> "draw", args |-> <<>>, ret |-> r.ret, before |-> count(boneyard),
                   panicked |-> FALSE]
  /\ UNCHANGED <<dealt, layout, ownerVars, fingerprint, whose_turn, consecutive_passes,
                 zVars, overVars, tableVars>>

\* boneyard.peek()
Peek ==
  /\ last' = [op |-> "peek", args |-> <<>>, ret |-> peek(boneyard), before |-> count(boneyard),
              panicked |-> FALSE]
  /\ UNCHANGED <<boneyard, drawVars, layout, ownerVars, fingerprint, whose_turn,
                 consecutive_passes, zVars, overVars, tableVars>>

\* boneyard.shuffle()
Shuffle ==
  /\ boneyard' \in shuffle(boneyard)
  /\ last' = [op |-> "shuffle", args |-> <<>>, ret |-> None, before |-> count(boneyard),
              panicked |-> FALSE]
  /\ UNCHANGED <<drawVars, layout, ownerVars, fingerprint, whose_turn, consecutive_passes,
                 zVars, overVars, tableVars>>

NextBoneyard ==
  \/ Draw
  \/ Peek
  \/ Shuffle

SpecBoneyard == InitBoneyard /\ [][NextBoneyard]_vars

\* the number of times a tile is in a sequence of tiles
Times(tiles, tile) == Cardinality({i \in 1..Len(tiles) : tiles[i] = tile})

\* the tiles still in the boneyard
Remaining == SubSeq(boneyard.tiles, boneyard.next + 1, Len(boneyard.tiles))

\* C39: whatever the order of the draw, peek and shuffle calls, the tiles
\* draw has returned together with the tiles still in the boneyard are the
\* tiles it was made with, each as often as it was given; count() is the
\* number of tiles given minus the number of tiles drawn; and draw returns
\* nothing exactly when count() is 0.
C39_TilesConserved ==
  /\ \A tile \in 0..(MaxTiles - 1) :
       Times(drawn, tile) + Times(Remaining, tile) = Times(dealt, tile)
  /\ count(boneyard) = Len(dealt) - Len(drawn)
  /\ last.op = "draw" => ((last.ret = None) = (last.before = 0))

\* all tiles of a boneyard of MaxTiles different tiles were drawn, in another
\* order than they were given, and one more draw returned nothing
C39_Witness ==
  /\ last.op = "draw" /\ last.ret = None /\ last.before = 0
  /\ Len(drawn) = MaxTiles /\ drawn # dealt
  /\ \A tile \in 0..(MaxTiles - 1) : Times(dealt, tile) = 1

\* a shuffle after a draw left the drawn tile where it was and changed the
\* order of the others
C39_ShuffleCase ==
  /\ last.op = "shuffle" /\ Len(drawn) = 1
  /\ boneyard.tiles[1] = drawn[1]
  /\ boneyard.tiles # dealt

\* peek showed the tile that the next draw then returned
C39_PeekCase ==
  /\ last.op = "peek" /\ last.ret # None /\ Len(drawn) >= 1
  /\ draw(boneyard).ret = last.ret

====
